---- MODULE Spec2Model ----
(***************************************************************************)
(* The sleuthers game server: the store (the tables of db-init.sql) and    *)
(* the request handlers of src/index.ts that read and write it.  The       *)
(* handlers run their queries one after the other with no transaction, so  *)
(* a handler that throws keeps whatever it wrote before the throw.         *)
(***************************************************************************)
EXTENDS Integers, Sequences, FiniteSets, TLC

\* db: the tables of the game; response: the last response sent;
\* flights: the POST /game/:gameId calls that have read the log and not yet
\* written.
VARIABLES db, response, flights

vars == <<db, response, flights>>

\* ------------------------------------------------------------ constants

\* SQL NULL, JavaScript undefined / null.
NULL == -1

NumCharacters == 10
NumTokens == 3
NumCells == 12
NumCards == 2 + 2 * NumTokens + 2 * NumCharacters
HandSize == 2
MinPlayerCount == 2
MaxPlayerCount == 6

Characters == 0 .. NumCharacters - 1
Tokens == 0 .. NumTokens - 1
Cells == 0 .. NumCells - 1
CardIds == 0 .. NumCards - 1

\* A registered app_user who takes no part in the game.
Outsider == MaxPlayerCount + 1

ActionTypes == {"ROLL", "MOVE", "SIGHT", "ELIMINATE", "PICK_TOKEN", "SPECIFIC_TOKEN"}

\* tokenLocations with the cells 0 and 7 left out.
tokenLocationsGap ==
  <<{1, 2, 4, 6, 8, 11}, {1, 3, 5, 6, 8, 10}, {2, 3, 4, 5, 9, 10, 11}>>

tokenLocations ==
  <<{1, 2, 4, 6, 7, 8, 11}, {0, 1, 3, 5, 6, 8, 10}, {2, 3, 4, 5, 9, 10, 11}>>

\* ------------------------------------------------------------ bounds

\* Player counts of the games explored: MinPlayerCount .. MaxPlayers.
MaxPlayers == 3
\* Log length up to which the free play of Spec is explored.
MaxLog == 4
\* Cells a request may name: 0 .. MaxCell - 1.
MaxCell == 2
\* Characters a die may show, a request may name: 0 .. MaxFaces - 1.
MaxFaces == 2
\* Users whose guesses are explored: 1 .. MaxGuessers.
MaxGuessers == 2
\* Outcomes of the shuffles of createGame: seeds 0 .. MaxSeeds - 1.
MaxSeeds == 2
\* Outcomes of a random draw among the eliminable characters.
MaxDraws == 2

\* ------------------------------------------------------------ helpers

Range(f) == {f[x] : x \in DOMAIN f}

Min(S) == CHOOSE x \in S : \A y \in S : x <= y

Abs(x) == IF x < 0 THEN -x ELSE x

\* The element of S with r (mod |S|) elements of S below it.
Pick(S, r) ==
  CHOOSE x \in S : Cardinality({y \in S : y < x}) = r % Cardinality(S)

\* A shuffle of a 1-indexed sequence: the cut of the sequence at k.
Cut(seq, k) ==
  [i \in 1 .. Len(seq) |-> seq[((i - 1 + k) % Len(seq)) + 1]]

\* ------------------------------------------------------------ createGame

Card(a1, c1, t1, a2, c2, t2) ==
  [deck_order |-> NULL, action1 |-> a1, character1 |-> c1, token1 |-> t1,
   action2 |-> a2, character2 |-> c2, token2 |-> t2]

\* allCards with no character on the SIGHT slot of the MOVE and ELIMINATE cards.
allCardsUnbound(chars) ==
  <<Card("PICK_TOKEN", NULL, NULL, "MOVE", NULL, NULL),
    Card("PICK_TOKEN", NULL, NULL, "ELIMINATE", NULL, NULL)>>
  \o [k \in 1 .. 2 * NumTokens |->
        Card("SPECIFIC_TOKEN", NULL, (k - 1) \div 2,
             IF k % 2 = 1 THEN "MOVE" ELSE "ELIMINATE", NULL, NULL)]
  \o [k \in 1 .. 2 * NumCharacters |->
        LET i == (k - 1) \div 2
        IN IF k % 2 = 1
           THEN Card("PICK_TOKEN", NULL, NULL, "SIGHT", chars[i + 1], NULL)
           ELSE Card(IF i % 2 = 0 THEN "MOVE" ELSE "ELIMINATE", NULL, NULL,
                     "SIGHT", NULL, NULL)]

\* The array of all cards before the deck is shuffled; chars is the shuffled
\* character array the SIGHT cards are bound to.
allCards(chars) ==
  <<Card("PICK_TOKEN", NULL, NULL, "MOVE", NULL, NULL),
    Card("PICK_TOKEN", NULL, NULL, "ELIMINATE", NULL, NULL)>>
  \o [k \in 1 .. 2 * NumTokens |->
        Card("SPECIFIC_TOKEN", NULL, (k - 1) \div 2,
             IF k % 2 = 1 THEN "MOVE" ELSE "ELIMINATE", NULL, NULL)]
  \o [k \in 1 .. 2 * NumCharacters |->
        LET i == (k - 1) \div 2
        IN IF k % 2 = 1
           THEN Card("PICK_TOKEN", NULL, NULL, "SIGHT", chars[i + 1], NULL)
           ELSE Card(IF i % 2 = 0 THEN "MOVE" ELSE "ELIMINATE", NULL, NULL,
                     "SIGHT", chars[i + 1], NULL)]

LogEntry(id, user, action) ==
  [id |-> id, app_user |-> user, action |-> action, die1 |-> NULL,
   die2 |-> NULL, card |-> NULL, character |-> NULL, token |-> NULL,
   move_from |-> NULL, sight_result |-> NULL, sight_user |-> NULL]

\* tokenCount without the two extra units.
tokenCountPlayers(playerCount) == playerCount

\* gameUsers numbering the orders from 1.
gameUsersFromOne(n, userChars) ==
  [u \in 1 .. n |-> [character |-> userChars[u], game_order |-> u]]

\* The stock each token starts with.
tokenCount(playerCount) == playerCount + 2

\* The game_user rows: user i of userIds gets characters[i] and order i.
gameUsers(n, userChars) ==
  [u \in 1 .. n |-> [character |-> userChars[u], game_order |-> u - 1]]

\* The store after PUT /game for userIds = <<1, ..., n>> (2 <= n <= 6):
\* dice is the opening roll, sightChars, placeChars and userChars the three
\* shuffles of the character array, deck the shuffled card array.
createGame(n, dice, sightChars, placeChars, deck, userChars) ==
  [game_stage |-> "PLAYING",
   game_token |-> [t \in Tokens |-> tokenCount(n)],
   game_log |->
     <<[LogEntry(0, 1, "ROLL") EXCEPT !.die1 = dice[1], !.die2 = dice[2]]>>,
   game_character |->
     [c \in Characters |->
        LET i == CHOOSE j \in 1 .. NumCharacters : placeChars[j] = c
        IN [location |-> IF i - 1 < 5 THEN i - 1 ELSE i - 1 + 2,
            eliminated |-> FALSE]],
   game_card |->
     [id \in CardIds |->
        [deck[id + 1] EXCEPT
           !.deck_order = IF id >= NumCards - HandSize * n THEN NULL ELSE id]],
   game_user |-> gameUsers(n, userChars),
   game_user_card |->
     {<<NumCards - 1 - (HandSize * (u - 1) + j), u>> :
        u \in 1 .. n, j \in 0 .. HandSize - 1},
   game_user_token |-> [k \in (1 .. n) \X Tokens |-> 0],
   game_user_guess |-> {}]

\* ------------------------------------------------------------ the log

lastLog(s) == s.game_log[Len(s.game_log)]

lastPlayerId(s) == lastLog(s).app_user

\* The entries by user that end the first i entries of the log.
RECURSIVE run(_, _, _)
run(log, user, i) ==
  IF i = 0 \/ log[i].app_user # user THEN 0 ELSE 1 + run(log, user, i - 1)

\* Length of the run of entries by the last entry's user that ends the log.
turnCount(s) == run(s.game_log, lastPlayerId(s), Len(s.game_log))

\* users[i].game_order !== i for some i, the users ordered by game_order.
badUserState(s) ==
  {s.game_user[u].game_order : u \in DOMAIN s.game_user}
    # 0 .. Cardinality(DOMAIN s.game_user) - 1

curPlayerOrder(s) == s.game_user[lastPlayerId(s)].game_order

\* users[curPlayerOrder]
curPlayer(s) ==
  CHOOSE u \in DOMAIN s.game_user : s.game_user[u].game_order = curPlayerOrder(s)

\* ------------------------------------------------------------ dice, board

\* The faces rollDice can return: two different characters, each replaced
\* by NULL with probability 1/6.
rollDice ==
  {d \in (Characters \cup {NULL}) \X (Characters \cup {NULL}) :
     d[1] = NULL \/ d[2] = NULL \/ d[1] # d[2]}

moveMatches(move, die) == die = NULL \/ die = move

\* movesMatch without the second order of the dice.
movesMatchOneOrder(move1, move2, die1, die2) ==
  moveMatches(move1, die1) /\ moveMatches(move2, die2)

movesMatch(move1, move2, die1, die2) ==
  \/ moveMatches(move1, die1) /\ moveMatches(move2, die2)
  \/ moveMatches(move1, die2) /\ moveMatches(move2, die1)

\* location & 3, location >>> 2
coords(location) ==
  <<(location % 2) + 2 * ((location \div 2) % 2), location \div 4>>

\* dist as the larger of the two differences.
distLargest(location1, location2) ==
  LET dx == Abs(coords(location1)[1] - coords(location2)[1])
      dy == Abs(coords(location1)[2] - coords(location2)[2])
  IN IF dx > dy THEN dx ELSE dy

dist(location1, location2) ==
  Abs(coords(location1)[1] - coords(location2)[1])
  + Abs(coords(location1)[2] - coords(location2)[2])

\* ------------------------------------------------------------ isFinished

\* isFinished asking for at least one guess that holds where it asks for one.
isFinishedAtLeastOne(s) ==
  \A user \in DOMAIN s.game_user : \A targetUser \in DOMAIN s.game_user :
    targetUser = user
    \/ Cardinality({g \in s.game_user_guess :
                      /\ g.app_user = user
                      /\ g.target_user = targetUser
                      /\ g.guess}) >= 1

isFinished(s) ==
  \A user \in DOMAIN s.game_user : \A targetUser \in DOMAIN s.game_user :
    targetUser = user
    \/ Cardinality({g \in s.game_user_guess :
                      /\ g.app_user = user
                      /\ g.target_user = targetUser
                      /\ g.guess}) = 1

\* ------------------------------------------------------------ responses

\* A response with the store as the handler leaves it.
Sent(s, status, result) == [status |-> status, result |-> result, db |-> s]

insertLog(s, entry) == [s EXCEPT !.game_log = Append(@, entry)]

\* ------------------------------------------------------------ resolvers

\* eliminable without the filter on the characters of the players.
eliminableAnyone(s) ==
  {c \in Characters : ~ s.game_character[c].eliminated}

\* The characters getCharacterId selects from.
eliminable(s) ==
  {c \in Characters :
     /\ ~ s.game_character[c].eliminated
     /\ c \notin {s.game_user[u].character : u \in DOMAIN s.game_user}}

\* A random one of them, or NULL (the falsy 0) when there is none.
getCharacterId(s, draw) ==
  IF eliminable(s) = {} THEN NULL ELSE Pick(eliminable(s), draw)

\* resolveEliminate giving up when the pile is empty.
resolveEliminateNoReset(s, authUser, req, nextLogId, rnd) ==
  LET eliminatedCharacterId == getCharacterId(s, rnd.draw1)
      s2 == insertLog(s, [LogEntry(nextLogId, authUser, "ELIMINATE") EXCEPT
                            !.card = req.cardId,
                            !.character = eliminatedCharacterId])
      s3 == [s2 EXCEPT
               !.game_character[eliminatedCharacterId].eliminated = TRUE]
  IN IF eliminatedCharacterId = NULL
     THEN Sent(s, 500, NULL)
     ELSE Sent(s3, 200, eliminatedCharacterId)

resolveEliminate(s, authUser, req, nextLogId, rnd) ==
  LET first == getCharacterId(s, rnd.draw1)
      \* go through the pile again
      s1 == IF first # NULL THEN s
            ELSE [s EXCEPT !.game_character =
                    [c \in Characters |-> [@[c] EXCEPT !.eliminated = FALSE]]]
      eliminatedCharacterId ==
        IF first # NULL THEN first ELSE getCharacterId(s1, rnd.draw2)
      s2 == insertLog(s1, [LogEntry(nextLogId, authUser, "ELIMINATE") EXCEPT
                             !.card = req.cardId,
                             !.character = eliminatedCharacterId])
      s3 == [s2 EXCEPT
               !.game_character[eliminatedCharacterId].eliminated = TRUE]
  IN IF eliminatedCharacterId = NULL
     THEN Sent(s1, 500, NULL)
     ELSE Sent(s3, 200, eliminatedCharacterId)

\* resolveMove with the one-step rule of the forced moves.
resolveMoveOneStep(s, authUser, req, nextLogId, characterLocation) ==
  IF req.moveTo = NULL THEN Sent(s, 400, NULL)
  ELSE IF req.characterId = NULL THEN Sent(s, 400, NULL)
  ELSE IF dist(characterLocation, req.moveTo) # 1 THEN Sent(s, 400, NULL)
  ELSE LET s1 == insertLog(s, [LogEntry(nextLogId, authUser, "MOVE") EXCEPT
                                 !.card = req.cardId,
                                 !.character = req.characterId,
                                 !.move_from = characterLocation])
       IN Sent([s1 EXCEPT
                  !.game_character[req.characterId].location = req.moveTo],
               200, NULL)

resolveMove(s, authUser, req, nextLogId, characterLocation) ==
  IF req.moveTo = NULL THEN Sent(s, 400, NULL)
  ELSE IF req.characterId = NULL THEN Sent(s, 400, NULL)
  ELSE IF req.moveTo = characterLocation THEN Sent(s, 400, NULL)
  ELSE LET s1 == insertLog(s, [LogEntry(nextLogId, authUser, "MOVE") EXCEPT
                                 !.card = req.cardId,
                                 !.character = req.characterId,
                                 !.move_from = characterLocation])
       IN Sent([s1 EXCEPT
                  !.game_character[req.characterId].location = req.moveTo],
               200, NULL)

\* takeToken without the decrement of the stock.
takeTokenKeepStock(s, authUser, req, nextLogId, action, tokenId) ==
  LET s1 == insertLog(s, [LogEntry(nextLogId, authUser, action) EXCEPT
                            !.card = req.cardId, !.token = tokenId])
  IN [s1 EXCEPT !.game_user_token[<<authUser, tokenId>>] = @ + 1]

\* The log entry and the two counts a picked-up token changes.
takeToken(s, authUser, req, nextLogId, action, tokenId) ==
  LET s1 == insertLog(s, [LogEntry(nextLogId, authUser, action) EXCEPT
                            !.card = req.cardId, !.token = tokenId])
      s2 == [s1 EXCEPT !.game_user_token[<<authUser, tokenId>>] = @ + 1]
  IN [s2 EXCEPT !.game_token[tokenId] = @ - 1]

\* resolvePickToken wherever the player's character stands.
resolvePickTokenAnywhere(s, authUser, req, nextLogId) ==
  IF req.tokenId = NULL THEN Sent(s, 400, NULL)
  ELSE IF req.tokenId \notin Tokens THEN Sent(s, 400, NULL)
  ELSE Sent(takeToken(s, authUser, req, nextLogId, "PICK_TOKEN", req.tokenId),
            200, NULL)

resolvePickToken(s, authUser, req, nextLogId) ==
  IF req.tokenId = NULL THEN Sent(s, 400, NULL)
  ELSE IF ~ (/\ req.tokenId \in Tokens
             /\ s.game_character[s.game_user[authUser].character].location
                  \in tokenLocations[req.tokenId + 1])
  THEN Sent(s, 400, NULL)
  ELSE Sent(takeToken(s, authUser, req, nextLogId, "PICK_TOKEN", req.tokenId),
            200, NULL)

\* canSee looking along the columns only.
canSeeColumn(loc1, loc2) == coords(loc1)[1] = coords(loc2)[1]

\* x1 === x2 || y1 === y2
canSee(loc1, loc2) ==
  \/ coords(loc1)[1] = coords(loc2)[1]
  \/ coords(loc1)[2] = coords(loc2)[2]

resolveSight(s, authUser, req, nextLogId, cardCharacterId) ==
  IF req.sightUserId = NULL THEN Sent(s, 400, NULL)
  ELSE IF cardCharacterId = NULL THEN Sent(s, 500, NULL)
  ELSE IF req.sightUserId \notin DOMAIN s.game_user THEN Sent(s, 404, NULL)
  ELSE LET loc1 == s.game_character[cardCharacterId].location
           loc2 == s.game_character[s.game_user[req.sightUserId].character].location
           sees == IF canSee(loc1, loc2) THEN 1 ELSE 0
       IN Sent(insertLog(s, [LogEntry(nextLogId, authUser, "SIGHT") EXCEPT
                               !.card = req.cardId,
                               !.character = cardCharacterId,
                               !.sight_user = req.sightUserId,
                               !.sight_result = sees]),
               200, sees)

\* resolveSpecificToken taking the token the request names, if it names one.
resolveSpecificTokenAsked(s, authUser, req, nextLogId, cardTokenId) ==
  IF cardTokenId = NULL THEN Sent(s, 500, NULL)
  ELSE Sent(takeToken(s, authUser, req, nextLogId, "SPECIFIC_TOKEN",
                      IF req.tokenId \in Tokens THEN req.tokenId ELSE cardTokenId),
            200, NULL)

resolveSpecificToken(s, authUser, req, nextLogId, cardTokenId) ==
  IF cardTokenId = NULL THEN Sent(s, 500, NULL)
  ELSE Sent(takeToken(s, authUser, req, nextLogId, "SPECIFIC_TOKEN", cardTokenId),
            200, NULL)

resolve(s, authUser, req, nextLogId, characterLocation, cardCharacterId, cardTokenId, rnd) ==
  CASE req.type = "ELIMINATE" ->
         resolveEliminate(s, authUser, req, nextLogId, rnd)
    [] req.type = "MOVE" ->
         resolveMove(s, authUser, req, nextLogId, characterLocation)
    [] req.type = "PICK_TOKEN" ->
         resolvePickToken(s, authUser, req, nextLogId)
    [] req.type = "SIGHT" ->
         resolveSight(s, authUser, req, nextLogId, cardCharacterId)
    [] req.type = "SPECIFIC_TOKEN" ->
         resolveSpecificToken(s, authUser, req, nextLogId, cardTokenId)
    [] OTHER -> Sent(s, 400, NULL)

\* ------------------------------------------------------------ POST /game/:gameId

\* SELECT MIN(count) FROM game_token
minTokens(s) == Min(Range(s.game_token))

\* nextUserId with the lowest game_order first.
nextUserIdLowest(s, order) ==
  LET found == {u \in DOMAIN s.game_user : s.game_user[u].game_order \in {order, 0}}
  IN CHOOSE u \in found :
       \A v \in found : s.game_user[u].game_order <= s.game_user[v].game_order

\* The user with game_order IN (order, 0), the highest first.
nextUserId(s, order) ==
  LET found == {u \in DOMAIN s.game_user : s.game_user[u].game_order \in {order, 0}}
  IN CHOOSE u \in found :
       \A v \in found : s.game_user[v].game_order <= s.game_user[u].game_order

\* The cards of the draw pile.
drawPile(s) == {id \in CardIds : s.game_card[id].deck_order # NULL}

\* nextCard taking the last card of the draw pile.
nextCardLast(s) ==
  CHOOSE id \in drawPile(s) :
    \A other \in drawPile(s) :
      s.game_card[id].deck_order >= s.game_card[other].deck_order

\* The first card of the draw pile, by deck_order.
nextCard(s) ==
  CHOOSE id \in drawPile(s) :
    \A other \in drawPile(s) :
      s.game_card[id].deck_order <= s.game_card[other].deck_order

\* nextTurn leaving the deck_order of the card it draws.
nextTurnKeepOrder(s, authUser, req, nextLogId, order, rnd, actionResult) ==
  LET s1 == insertLog(s, [LogEntry(nextLogId + 1, nextUserId(s, order + 1), "ROLL")
                            EXCEPT !.die1 = rnd.dice[1], !.die2 = rnd.dice[2]])
      s2 == [s1 EXCEPT !.game_user_card = @ \ {<<req.cardId, authUser>>}]
  IN IF drawPile(s2) # {}
     THEN Sent([s2 EXCEPT !.game_user_card = @ \cup {<<nextCard(s2), authUser>>}],
               200, actionResult)
     ELSE Sent(s2, 500, NULL)

\* nextTurn going on without a card when the draw pile is empty.
nextTurnNoThrow(s, authUser, req, nextLogId, order, rnd, actionResult) ==
  LET s1 == insertLog(s, [LogEntry(nextLogId + 1, nextUserId(s, order + 1), "ROLL")
                            EXCEPT !.die1 = rnd.dice[1], !.die2 = rnd.dice[2]])
      s2 == [s1 EXCEPT !.game_user_card = @ \ {<<req.cardId, authUser>>}]
  IN IF drawPile(s2) # {}
     THEN LET cardId == nextCard(s2)
              s3 == [s2 EXCEPT !.game_card[cardId].deck_order = NULL]
          IN Sent([s3 EXCEPT !.game_user_card = @ \cup {<<cardId, authUser>>}],
                  200, actionResult)
     ELSE Sent(s2, 200, actionResult)

\* nextTurn giving the roll the id after the next one.
nextTurnSkipId(s, authUser, req, nextLogId, order, rnd, actionResult) ==
  LET s1 == insertLog(s, [LogEntry(nextLogId + 2, nextUserId(s, order + 1), "ROLL")
                            EXCEPT !.die1 = rnd.dice[1], !.die2 = rnd.dice[2]])
      s2 == [s1 EXCEPT !.game_user_card = @ \ {<<req.cardId, authUser>>}]
  IN IF drawPile(s2) # {}
     THEN LET cardId == nextCard(s2)
              s3 == [s2 EXCEPT !.game_card[cardId].deck_order = NULL]
          IN Sent([s3 EXCEPT !.game_user_card = @ \cup {<<cardId, authUser>>}],
                  200, actionResult)
     ELSE Sent(s2, 500, NULL)

\* Get the next turn started: the roll of the next user, the discard, the draw.
nextTurn(s, authUser, req, nextLogId, order, rnd, actionResult) ==
  LET s1 == insertLog(s, [LogEntry(nextLogId + 1, nextUserId(s, order + 1), "ROLL")
                            EXCEPT !.die1 = rnd.dice[1], !.die2 = rnd.dice[2]])
      s2 == [s1 EXCEPT !.game_user_card = @ \ {<<req.cardId, authUser>>}]
  IN IF drawPile(s2) # {}
     THEN LET cardId == nextCard(s2)
              s3 == [s2 EXCEPT !.game_card[cardId].deck_order = NULL]
          IN Sent([s3 EXCEPT !.game_user_card = @ \cup {<<cardId, authUser>>}],
                  200, actionResult)
     ELSE Sent(s2, 500, NULL)

\* afterAction without the call of isFinished.
afterActionGuessing(s, authUser, req, nextLogId, turn, order, rnd, actionResult) ==
  IF minTokens(s) < 1
  THEN Sent([s EXCEPT !.game_stage = "GUESSING"], 200, actionResult)
  ELSE IF turn = 4
  THEN nextTurn(s, authUser, req, nextLogId, order, rnd, actionResult)
  ELSE Sent(s, 200, actionResult)

\* afterAction starting the next turn whatever the stocks are.
afterActionGoesOn(s, authUser, req, nextLogId, turn, order, rnd, actionResult) ==
  IF turn = 4
  THEN nextTurn(s, authUser, req, nextLogId, order, rnd, actionResult)
  ELSE Sent(s, 200, actionResult)

\* What follows the resolver of a card action: the stage, or the next turn.
afterAction(s, authUser, req, nextLogId, turn, order, rnd, actionResult) ==
  IF minTokens(s) < 1
  THEN Sent([s EXCEPT !.game_stage =
               IF isFinished(s) THEN "FINISHED" ELSE "GUESSING"],
            200, actionResult)
  ELSE IF turn = 4
  THEN nextTurn(s, authUser, req, nextLogId, order, rnd, actionResult)
  ELSE Sent(s, 200, actionResult)

\* The dice of the turn: log[log.length - turnCount].
turnDice(s) == s.game_log[Len(s.game_log) - turnCount(s) + 1]

\* diceCheck asking the second move to match both dice.
diceCheckBothDice(s, characterId) ==
  IF turnCount(s) = 2
  THEN /\ moveMatches(characterId, turnDice(s).die1)
       /\ moveMatches(characterId, turnDice(s).die2)
  ELSE \/ moveMatches(characterId, turnDice(s).die1)
       \/ moveMatches(characterId, turnDice(s).die2)

\* The check of the character of a forced move against the dice.
diceCheck(s, characterId) ==
  IF turnCount(s) = 2
  THEN movesMatch(lastLog(s).character, characterId,
                  turnDice(s).die1, turnDice(s).die2)
  ELSE \/ moveMatches(characterId, turnDice(s).die1)
       \/ moveMatches(characterId, turnDice(s).die2)

\* forcedMove logging the cell moved to as the cell moved from.
forcedMoveLogTo(s, authUser, req, nextLogId, characterLocation) ==
  IF req.type # "MOVE" THEN Sent(s, 400, NULL)
  ELSE IF req.moveTo = NULL THEN Sent(s, 400, NULL)
  ELSE IF req.characterId = NULL THEN Sent(s, 400, NULL)
  ELSE IF ~ diceCheck(s, req.characterId) THEN Sent(s, 400, NULL)
  ELSE IF dist(characterLocation, req.moveTo) # 1 THEN Sent(s, 400, NULL)
  ELSE LET s1 == insertLog(s, [LogEntry(nextLogId, authUser, "MOVE") EXCEPT
                                 !.character = req.characterId,
                                 !.move_from = req.moveTo])
       IN Sent([s1 EXCEPT
                  !.game_character[req.characterId].location = req.moveTo],
               200, NULL)

\* case 1, case 2: the two forced moves.
forcedMove(s, authUser, req, nextLogId, characterLocation) ==
  IF req.type # "MOVE" THEN Sent(s, 400, NULL)
  ELSE IF req.moveTo = NULL THEN Sent(s, 400, NULL)
  ELSE IF req.characterId = NULL THEN Sent(s, 400, NULL)
  ELSE IF ~ diceCheck(s, req.characterId) THEN Sent(s, 400, NULL)
  ELSE IF dist(characterLocation, req.moveTo) # 1 THEN Sent(s, 400, NULL)
  ELSE LET s1 == insertLog(s, [LogEntry(nextLogId, authUser, "MOVE") EXCEPT
                                 !.character = req.characterId,
                                 !.move_from = characterLocation])
       IN Sent([s1 EXCEPT
                  !.game_character[req.characterId].location = req.moveTo],
               200, NULL)

\* actionCheck with the rule of phase 3 in phase 4 too.
actionCheckAnySlot(s, card, type) ==
  card.action1 = type \/ card.action2 = type

\* The check of the action type against the two actions of the card.
actionCheck(s, card, type) ==
  IF turnCount(s) = 4
  THEN \/ card.action1 = lastLog(s).action /\ card.action2 = type
       \/ card.action1 = type /\ card.action2 = lastLog(s).action
  ELSE card.action1 = type \/ card.action2 = type

\* inHand without the filter on the user: the card is in some hand.
inHandOfAnyone(s, cardId, authUser) ==
  \E u \in DOMAIN s.game_user : <<cardId, u>> \in s.game_user_card

\* The card lookup: a row of game_user_card with the card and the user.
inHand(s, cardId, authUser) == <<cardId, authUser>> \in s.game_user_card

\* case 4, case 3: the two actions of a card.
cardAction(s, authUser, req, nextLogId, characterLocation, rnd) ==
  IF turnCount(s) = 4 /\ req.cardId # lastLog(s).card THEN Sent(s, 400, NULL)
  ELSE IF req.cardId = NULL THEN Sent(s, 400, NULL)
  ELSE IF ~ inHand(s, req.cardId, authUser) THEN Sent(s, 400, NULL)
  ELSE LET card == s.game_card[req.cardId]
           slot1 == card.action1 = req.type
           cardCharacterId == IF slot1 THEN card.character1 ELSE card.character2
           cardTokenId == IF slot1 THEN card.token1 ELSE card.token2
           done == resolve(s, authUser, req, nextLogId, characterLocation,
                           cardCharacterId, cardTokenId, rnd)
       IN IF card.action1 = card.action2 THEN Sent(s, 500, NULL)
          ELSE IF ~ actionCheck(s, card, req.type) THEN Sent(s, 400, NULL)
          ELSE IF done.status # 200 THEN done
          ELSE afterAction(done.db, authUser, req, nextLogId, turnCount(s),
                           curPlayerOrder(s), rnd, done.result)

\* authUser.id !== curPlayer.id
notYourTurnNoCheck(s, authUser) == FALSE

notYourTurn(s, authUser) == authUser # curPlayer(s)

\* The response to POST /game/:gameId by authUser, and the store it leaves.
\* rnd holds the random draws the handler may make.
applyAction(s, authUser, req, rnd) ==
  IF badUserState(s) THEN Sent(s, 500, NULL)
  ELSE IF authUser \notin DOMAIN s.game_user THEN Sent(s, 404, NULL)
  ELSE IF Len(s.game_log) = 0 THEN Sent(s, 500, NULL)
  ELSE IF notYourTurn(s, authUser) THEN Sent(s, 400, NULL)
  ELSE IF req.characterId # NULL /\ req.characterId \notin Characters
  THEN Sent(s, 400, NULL)
  ELSE IF req.moveTo # NULL /\ req.moveTo \notin Cells THEN Sent(s, 400, NULL)
  ELSE LET nextLogId == lastLog(s).id + 1
           characterLocation ==
             IF req.characterId # NULL
             THEN s.game_character[req.characterId].location ELSE NULL
       IN CASE turnCount(s) \in {1, 2} ->
                 forcedMove(s, authUser, req, nextLogId, characterLocation)
            [] turnCount(s) \in {3, 4} ->
                 cardAction(s, authUser, req, nextLogId, characterLocation, rnd)
            [] OTHER -> Sent(s, 500, NULL)

\* What a call writes before it inserts its log entry: ELIMINATE resets
\* the flags when the pile is empty.
beforeLog(s, req) ==
  IF req.type = "ELIMINATE" /\ eliminable(s) = {}
  THEN [s EXCEPT !.game_character =
          [c \in Characters |-> [@[c] EXCEPT !.eliminated = FALSE]]]
  ELSE s

\* POST /game/:gameId from the point where it has read the log: log is the
\* log it read, s the store by now.  Every later query reads s; the insert
\* of the log entry, with the id after the last one read, violates the
\* primary key of game_log when s holds an entry with that id, and the call
\* ends there, with what it wrote before.
afterLogRead(s, log, authUser, req, rnd) ==
  LET sent == applyAction([s EXCEPT !.game_log = log], authUser, req, rnd)
  IN IF Len(s.game_log) = Len(log) THEN sent
     ELSE IF sent.db.game_log = log THEN Sent(s, sent.status, NULL)
     ELSE Sent(beforeLog(s, req), 500, NULL)

\* ------------------------------------------------------------ guesses

\* upsertGuess replacing every guess of the user about the target player.
upsertGuessPerTarget(s, authUser, req) ==
  IF req.characterId = NULL \/ req.userId = NULL \/ req.guess = NULL
  THEN Sent(s, 400, NULL)
  ELSE IF \/ authUser \notin DOMAIN s.game_user
          \/ req.characterId \notin Characters
          \/ req.userId \notin DOMAIN s.game_user
  THEN Sent(s, 500, NULL)
  ELSE LET row == [app_user |-> authUser, character |-> req.characterId,
                   target_user |-> req.userId, guess |-> req.guess = 1]
           s1 == [s EXCEPT !.game_user_guess =
                    {g \in @ : ~ (/\ g.app_user = authUser
                                  /\ g.target_user = req.userId)} \cup {row}]
       IN Sent(IF isFinished(s1) THEN [s1 EXCEPT !.game_stage = "FINISHED"]
               ELSE s1, 200, NULL)

\* POST /game/:gameId/guess
upsertGuess(s, authUser, req) ==
  IF req.characterId = NULL \/ req.userId = NULL \/ req.guess = NULL
  THEN Sent(s, 400, NULL)
  ELSE IF \/ authUser \notin DOMAIN s.game_user
          \/ req.characterId \notin Characters
          \/ req.userId \notin DOMAIN s.game_user
  THEN Sent(s, 500, NULL)
  ELSE LET row == [app_user |-> authUser, character |-> req.characterId,
                   target_user |-> req.userId, guess |-> req.guess = 1]
           s1 == [s EXCEPT !.game_user_guess =
                    {g \in @ : ~ (/\ g.app_user = authUser
                                  /\ g.character = req.characterId
                                  /\ g.target_user = req.userId)} \cup {row}]
       IN Sent(IF isFinished(s1) THEN [s1 EXCEPT !.game_stage = "FINISHED"]
               ELSE s1, 200, NULL)

\* deleteGuess leaving the stage alone.
deleteGuessNoCheck(s, authUser, req) ==
  IF req.characterId = NULL \/ req.userId = NULL THEN Sent(s, 400, NULL)
  ELSE Sent([s EXCEPT !.game_user_guess =
               {g \in @ : ~ (/\ g.app_user = authUser
                             /\ g.character = req.characterId
                             /\ g.target_user = req.userId)}], 200, NULL)

\* DELETE /game/:gameId/guess
deleteGuess(s, authUser, req) ==
  IF req.characterId = NULL \/ req.userId = NULL THEN Sent(s, 400, NULL)
  ELSE LET s1 == [s EXCEPT !.game_user_guess =
                    {g \in @ : ~ (/\ g.app_user = authUser
                                  /\ g.character = req.characterId
                                  /\ g.target_user = req.userId)}]
       IN Sent(IF isFinished(s1) THEN [s1 EXCEPT !.game_stage = "FINISHED"]
               ELSE s1, 200, NULL)

\* ------------------------------------------------------------ inputs

\* The dice explored: the faces 0 .. MaxFaces - 1 and no result.
Faces == (0 .. MaxFaces - 1) \cup {NULL}

Dice == {d \in Faces \X Faces : d \in rollDice}

\* The random draws of one call: the two draws of ELIMINATE, the next roll.
Draws(s, req) ==
  [draw1 : IF req.type = "ELIMINATE" THEN 0 .. MaxDraws - 1 ELSE {0},
   draw2 : {0},
   dice : IF turnCount(s) = 4 THEN Dice ELSE {<<NULL, NULL>>}]

NoDraws == [draw1 |-> 0, draw2 |-> 0, dice |-> <<NULL, NULL>>]

\* The shuffles of createGame explored, by seed.
Deal(n, dice, seed) ==
  LET characters == [i \in 1 .. NumCharacters |-> i - 1]
      sightChars == Cut(characters, seed)
  IN createGame(n, dice, sightChars, characters,
                Cut(allCards(sightChars), 3 * seed), Cut(characters, seed))

\* The stage read where the game table has no row of the game.
NoStage == "NONE"

\* The store with no row of the game in any table.
NoGame ==
  [game_stage |-> NoStage, game_token |-> <<>>, game_log |-> <<>>,
   game_character |-> <<>>, game_card |-> <<>>, game_user |-> <<>>,
   game_user_card |-> {}, game_user_token |-> <<>>, game_user_guess |-> {}]

\* The response to PUT /game with userIds = <<1, ..., playerCount>>, all of
\* them users, and the store it leaves: the game row is inserted, with the
\* default stage, before the player count is looked at.
putGame(s, playerCount, dice, seed) ==
  IF playerCount = 0 THEN Sent(s, 400, NULL)
  ELSE LET s1 == [s EXCEPT !.game_stage = "PLAYING"]
       IN IF playerCount < MinPlayerCount \/ playerCount > MaxPlayerCount
          THEN Sent(s1, 400, NULL)
          ELSE Sent(Deal(playerCount, dice, seed), 200, NULL)

AllUsers(s) == DOMAIN s.game_user \cup {Outsider}

Request(type, cardId, characterId, tokenId, moveTo, sightUserId) ==
  [type |-> type, cardId |-> cardId, characterId |-> characterId,
   tokenId |-> tokenId, moveTo |-> moveTo, sightUserId |-> sightUserId]

\* The cells requests name: the cells 0 .. MaxCell - 1.
RequestCells == 0 .. MaxCell - 1

\* The characters requests name: the faces of the dice explored.
RequestCharacters == 0 .. MaxFaces - 1

Hand(s, user) == {id \in CardIds : <<id, user>> \in s.game_user_card}

\* The requests of a forced move, and three that are malformed.
MoveRequests ==
  {Request("MOVE", NULL, c, NULL, l, NULL) :
     c \in RequestCharacters, l \in RequestCells}
  \cup {Request("MOVE", NULL, NumCharacters, NULL, 0, NULL),
        Request("MOVE", NULL, 0, NULL, NumCells, NULL),
        Request("MOVE", NULL, NULL, NULL, NULL, NULL)}

\* The requests of a card action with the card id.
CardRequests(s, id) ==
  {Request("MOVE", id, c, NULL, l, NULL) :
     c \in RequestCharacters, l \in RequestCells}
  \cup {Request(type, id, NULL, NULL, NULL, NULL) :
          type \in {"ELIMINATE", "SPECIFIC_TOKEN"}}
  \cup {Request("PICK_TOKEN", id, NULL, t, NULL, NULL) : t \in Tokens}
  \cup {Request("SIGHT", id, NULL, NULL, NULL, u) : u \in AllUsers(s)}

\* The requests explored in a state: the forced moves and one card action
\* in phases 1 and 2; from phase 3 on the card actions with a card of the
\* hand, one forced move, and four requests that are malformed or name no
\* card of the hand.
Requests(s, user) ==
  IF turnCount(s) \in {1, 2}
  THEN MoveRequests \cup {Request("ELIMINATE", NULL, NULL, NULL, NULL, NULL)}
  ELSE UNION {CardRequests(s, id) : id \in Hand(s, user)}
       \cup {Request("MOVE", NULL, 0, NULL, 1, NULL),
             Request("ELIMINATE", Min(CardIds \ Hand(s, user)), NULL, NULL, NULL, NULL),
             Request("ROLL", Min(Hand(s, user) \cup {NumCards}), NULL, NULL, NULL, NULL),
             Request("PICK_TOKEN", Min(Hand(s, user) \cup {NumCards}), NULL, NULL, NULL, NULL)}

GuessRequest(characterId, userId, guess) ==
  [characterId |-> characterId, userId |-> userId, guess |-> guess]

\* ------------------------------------------------------------ the view

\* A property of a response object: present with a value, or left out.
Some(x) == {x}
None == {}

\* guessesShown to every user of the game.
guessesShownToAll(s, authUser, user) == TRUE

\* authUser.id === user.id || game.stage === "FINISHED"
guessesShown(s, authUser, user) ==
  authUser = user \/ s.game_stage = "FINISHED"

\* The guesses of a user, by target user and character.
guessesOf(s, user) ==
  {[target_user |-> g.target_user, character |-> g.character, guess |-> g.guess] :
     g \in {h \in s.game_user_guess : h.app_user = user}}

\* userView showing the character and the cards of every user of a
\* finished game.
userViewAtEnd(s, authUser, user) ==
  LET shown == authUser = user \/ s.game_stage = "FINISHED"
  IN [gameOrder |-> s.game_user[user].game_order,
      tokens |-> [t \in Tokens |-> s.game_user_token[<<user, t>>]],
      cur |-> user = curPlayer(s),
      turnCount |-> IF user = curPlayer(s) THEN Some(turnCount(s)) ELSE None,
      self |-> authUser = user,
      character |-> IF shown THEN Some(s.game_user[user].character) ELSE None,
      cards |-> IF shown THEN Some(Hand(s, user)) ELSE None,
      guesses |->
        IF guessesShown(s, authUser, user) THEN Some(guessesOf(s, user)) ELSE None]

\* The entry of users for a user of the game, as authUser gets it.
userView(s, authUser, user) ==
  [gameOrder |-> s.game_user[user].game_order,
   tokens |-> [t \in Tokens |-> s.game_user_token[<<user, t>>]],
   cur |-> user = curPlayer(s),
   turnCount |-> IF user = curPlayer(s) THEN Some(turnCount(s)) ELSE None,
   self |-> authUser = user,
   character |->
     IF authUser = user THEN Some(s.game_user[user].character) ELSE None,
   cards |-> IF authUser = user THEN Some(Hand(s, user)) ELSE None,
   guesses |->
     IF guessesShown(s, authUser, user) THEN Some(guessesOf(s, user)) ELSE None]

\* The entry of log for a log entry, as authUser gets it.
logView(logEntry, authUser) ==
  [user |-> logEntry.app_user,
   action |-> logEntry.action,
   card |-> IF logEntry.card # NULL THEN Some(logEntry.card) ELSE None,
   die1 |-> IF logEntry.action = "ROLL" /\ logEntry.die1 # NULL
            THEN Some(logEntry.die1) ELSE None,
   die2 |-> IF logEntry.action = "ROLL" /\ logEntry.die2 # NULL
            THEN Some(logEntry.die2) ELSE None,
   character |->
     IF \/ logEntry.action \in {"MOVE", "SIGHT"}
        \/ logEntry.action = "ELIMINATE" /\ authUser = logEntry.app_user
     THEN Some(logEntry.character) ELSE None,
   moveFrom |-> IF logEntry.action = "MOVE"
                THEN Some(logEntry.move_from) ELSE None,
   sightResult |->
     IF logEntry.action = "SIGHT" /\ authUser = logEntry.app_user
     THEN Some(logEntry.sight_result) ELSE None,
   sightUser |-> IF logEntry.action = "SIGHT"
                 THEN Some(logEntry.sight_user) ELSE None,
   token |-> IF logEntry.action \in {"PICK_TOKEN", "SPECIFIC_TOKEN"}
             THEN Some(logEntry.token) ELSE None]

\* The response to GET /game/:gameId by authUser; the store is left as it is.
getGame(s, authUser) ==
  IF s.game_stage = NoStage THEN Sent(s, 404, NULL)
  ELSE IF badUserState(s) THEN Sent(s, 500, NULL)
  ELSE IF authUser \notin DOMAIN s.game_user THEN Sent(s, 404, NULL)
  ELSE IF Len(s.game_log) = 0 THEN Sent(s, 500, NULL)
  ELSE Sent(s, 200,
            [stage |-> s.game_stage,
             users |-> [user \in DOMAIN s.game_user |->
                          userView(s, authUser, user)],
             characters |-> [c \in Characters |-> s.game_character[c].location],
             tokens |-> s.game_token,
             log |-> [i \in DOMAIN s.game_log |->
                        logView(s.game_log[i], authUser)]])

\* ------------------------------------------------------------ specification

Response(op, user, sent) ==
  [op |-> op, user |-> user, status |-> sent.status, result |-> sent.result]

Init ==
  \E n \in MinPlayerCount .. MaxPlayers, dice \in Dice, seed \in 0 .. MaxSeeds - 1 :
    /\ db = Deal(n, dice, seed)
    /\ response = [op |-> "createGame", user |-> 1, status |-> 200, result |-> NULL]
    /\ flights = {}

Handled(op, user, sent) ==
  /\ db' = sent.db
  /\ response' = Response(op, user, sent)
  /\ UNCHANGED flights

\* A request of a user: the random draws matter to an accepted request only.
ApplyAction ==
  /\ Len(db.game_log) <= MaxLog
  /\ \E user \in AllUsers(db) :
       \E req \in IF user = curPlayer(db) THEN Requests(db, user)
                  ELSE {Request("MOVE", NULL, 0, NULL, 1, NULL)} :
         \E rnd \in IF applyAction(db, user, req, NoDraws).status = 200
                    THEN Draws(db, req) ELSE {NoDraws} :
           Handled("applyAction", user, applyAction(db, user, req, rnd))

Next == ApplyAction

Spec == Init /\ [][Next]_vars

\* ------------------------------------------------------------ long games
\*
\* Spec explores every request over the first turn, with no guesses.  A
\* game that runs until a token is used up or the deck is empty takes tens
\* of turns, so the two specifications below let the active player send one
\* request per step, the request a plan scores best: SpecRush plays for the
\* last unit of a token, with the guesses made around it, SpecStall for the
\* last card of the deck.

\* The well-formed requests of the player to move: in a move, the player's
\* own character or character 0.
PlayRequests(s, user) ==
  LET movers == {s.game_user[user].character, 0}
  IN IF turnCount(s) \in {1, 2}
     THEN {Request("MOVE", NULL, c, NULL, l, NULL) : c \in movers, l \in Cells}
     ELSE UNION {{Request("MOVE", id, c, NULL, l, NULL) :
                    c \in movers, l \in Cells}
                 \cup {Request(type, id, NULL, NULL, NULL, NULL) :
                         type \in {"ELIMINATE", "SPECIFIC_TOKEN"}}
                 \cup {Request("PICK_TOKEN", id, NULL, t, NULL, NULL) :
                         t \in Tokens}
                 \cup {Request("SIGHT", id, NULL, NULL, NULL, u) :
                         u \in DOMAIN s.game_user} : id \in Hand(s, user)}

AcceptedRequests(s, user) ==
  {req \in PlayRequests(s, user) : applyAction(s, user, req, NoDraws).status = 200}

\* The token with the lowest stock, and the one with the highest.
Scarcest(s) ==
  CHOOSE t \in Tokens :
    \A o \in Tokens : s.game_token[t] < s.game_token[o]
                      \/ (s.game_token[t] = s.game_token[o] /\ t <= o)

Richest(s) ==
  CHOOSE t \in Tokens :
    \A o \in Tokens : s.game_token[t] > s.game_token[o]
                      \/ (s.game_token[t] = s.game_token[o] /\ t <= o)

TokenCard(s, id) ==
  {s.game_card[id].action1, s.game_card[id].action2}
    \cap {"PICK_TOKEN", "SPECIFIC_TOKEN"} # {}

\* The player's character stands where the token can be picked up.
Stands(s, user, t) ==
  s.game_character[s.game_user[user].character].location
    \in tokenLocations[t + 1]

MaxScore == 4

\* The plan of SpecRush: take the scarcest token, or get to where it is.
RushScore(s, user, req) ==
  LET after == applyAction(s, user, req, NoDraws).db
      goal == Scarcest(s)
  IN IF after.game_token[goal] < s.game_token[goal] THEN 4
     ELSE IF after.game_token # s.game_token THEN 3
     ELSE IF req.cardId # NULL /\ TokenCard(s, req.cardId) THEN 2
     ELSE IF Stands(after, user, goal) THEN 1
     ELSE 0

\* The steps from the player's character to the nearest cell of the token.
Near(s, user, t) ==
  Min({dist(s.game_character[s.game_user[user].character].location, l) :
         l \in tokenLocations[t + 1]})

\* The plan of SpecStall: play the cards that take no token; otherwise take
\* the richest token, and in the forced moves get to where it is.
StallScore(s, user, req) ==
  LET after == applyAction(s, user, req, NoDraws).db
      goal == Richest(s)
  IN IF req.cardId = NULL
     THEN IF Near(after, user, goal) > MaxScore THEN 0
          ELSE MaxScore - Near(after, user, goal)
     ELSE IF ~ TokenCard(s, req.cardId) THEN 4
     ELSE IF after.game_token[goal] < s.game_token[goal] THEN 3
     ELSE IF after.game_token # s.game_token /\ minTokens(after) = minTokens(s)
     THEN 2
     ELSE IF after.game_token = s.game_token THEN 1
     ELSE 0

\* The highest score of a request of S, and a request that has it.
RECURSIVE BestRush(_, _, _, _)
BestRush(s, user, S, k) ==
  IF k = 0 \/ \E req \in S : RushScore(s, user, req) = k
  THEN CHOOSE req \in S : RushScore(s, user, req) = k
  ELSE BestRush(s, user, S, k - 1)

RECURSIVE BestStall(_, _, _, _)
BestStall(s, user, S, k) ==
  IF k = 0 \/ \E req \in S : StallScore(s, user, req) = k
  THEN CHOOSE req \in S : StallScore(s, user, req) = k
  ELSE BestStall(s, user, S, k - 1)

\* The last unit of a token is gone, or the player to move can take it.
Brink(s) ==
  \/ minTokens(s) < 1
  \/ /\ minTokens(s) = 1
     /\ turnCount(s) \in {3, 4}
     /\ \E req \in AcceptedRequests(s, curPlayer(s)) :
          minTokens(applyAction(s, curPlayer(s), req, NoDraws).db) < 1

\* The request of SpecRush; on the brink, one for each action of the cards
\* that can take the last unit.
RushRequests(s, user) ==
  LET accepted == AcceptedRequests(s, user)
      slot(id, type) == {req \in accepted : req.cardId = id /\ req.type = type}
      last == {req.cardId : req \in {r \in accepted :
                 minTokens(applyAction(s, user, r, NoDraws).db) < 1}}
  IN IF accepted = {} THEN {Request("MOVE", NULL, 0, NULL, 1, NULL)}
     ELSE IF Brink(s) /\ last # {}
     THEN {BestRush(s, user, slot(x[1], x[2]), MaxScore) :
             x \in {y \in last \X ActionTypes : slot(y[1], y[2]) # {}}}
     ELSE {BestRush(s, user, accepted, MaxScore)}

\* The request of SpecStall: the best of those that pass the validation.
StallRequests(s, user) ==
  LET valid == {req \in PlayRequests(s, user) :
                  applyAction(s, user, req, NoDraws).status \in {200, 500}}
  IN IF valid = {} THEN {Request("MOVE", NULL, 0, NULL, 1, NULL)}
     ELSE {BestStall(s, user, valid, MaxScore)}

\* The rolls of the long games come out with no result, so that any
\* character may be moved.
LongDraws == NoDraws

\* The users whose guesses are explored.
Guessers(s) == (1 .. MaxGuessers) \cap DOMAIN s.game_user

\* The guesses of the long games: of a guesser, that another is character 0.
LongGuessRequests(s, user) ==
  {GuessRequest(0, u, 1) : u \in Guessers(s) \ {user}}

InitRush ==
  \E n \in MinPlayerCount .. MaxPlayers, seed \in 0 .. MaxSeeds - 1 :
    /\ db = Deal(n, <<NULL, NULL>>, seed)
    /\ response = [op |-> "createGame", user |-> 1, status |-> 200, result |-> NULL]
    /\ flights = {}

RushAction ==
  \E req \in RushRequests(db, curPlayer(db)) :
    Handled("applyAction", curPlayer(db),
            applyAction(db, curPlayer(db), req, LongDraws))

\* A request out of turn.
OutOfTurn ==
  /\ Brink(db)
  /\ \E user \in AllUsers(db) \ {curPlayer(db)} :
       Handled("applyAction", user,
               applyAction(db, user, Request("MOVE", NULL, 0, NULL, 1, NULL),
                           LongDraws))

UpsertGuess ==
  /\ Brink(db)
  /\ \E user \in Guessers(db) : \E req \in LongGuessRequests(db, user) :
       Handled("upsertGuess", user, upsertGuess(db, user, req))

DeleteGuess ==
  /\ Brink(db)
  /\ \E user \in Guessers(db) : \E req \in LongGuessRequests(db, user) :
       Handled("deleteGuess", user, deleteGuess(db, user, req))

NextRush == RushAction \/ OutOfTurn \/ UpsertGuess \/ DeleteGuess

SpecRush == InitRush /\ [][NextRush]_vars

\* The players of SpecStall: with fewer the tokens go before the cards.
StallPlayers == 4

InitStall ==
  \E seed \in 0 .. MaxSeeds - 1 :
    /\ db = Deal(StallPlayers, <<NULL, NULL>>, seed)
    /\ response = [op |-> "createGame", user |-> 1, status |-> 200, result |-> NULL]
    /\ flights = {}

StallAction ==
  \E req \in StallRequests(db, curPlayer(db)) :
    Handled("applyAction", curPlayer(db),
            applyAction(db, curPlayer(db), req, LongDraws))

NextStall == StallAction

SpecStall == InitStall /\ [][NextStall]_vars

\* ------------------------------------------------------------ views
\*
\* SpecView plays as SpecRush does and lets every user get the game when a
\* token is about to run out and after.

GetGame ==
  /\ Brink(db)
  /\ \E user \in AllUsers(db) : Handled("getGame", user, getGame(db, user))

NextView == NextRush \/ GetGame

SpecView == InitRush /\ [][NextView]_vars

\* ------------------------------------------------------------ the pile
\*
\* SpecCull plays CullPlayers players through the pile of characters to
\* eliminate: each plays ELIMINATE when a card of the hand allows it.

\* The players of SpecCull: the most, so that the pile is the smallest.
CullPlayers == 6

\* The plan of SpecCull: eliminate, or else play a card that takes no token.
CullScore(s, user, req) ==
  IF req.type = "ELIMINATE" THEN 4
  ELSE IF req.cardId = NULL THEN 1
  ELSE IF req.type \in {"MOVE", "SIGHT"} THEN 3
  ELSE 2

RECURSIVE BestCull(_, _, _, _)
BestCull(s, user, S, k) ==
  IF k = 0 \/ \E req \in S : CullScore(s, user, req) = k
  THEN CHOOSE req \in S : CullScore(s, user, req) = k
  ELSE BestCull(s, user, S, k - 1)

CullRequests(s, user) ==
  LET accepted == AcceptedRequests(s, user)
  IN IF accepted = {} THEN {} ELSE {BestCull(s, user, accepted, MaxScore)}

\* The draws of SpecCull: which character of the pile goes.
CullDraws(req) ==
  {[NoDraws EXCEPT !.draw1 = d, !.draw2 = d] :
     d \in IF req.type = "ELIMINATE" THEN 0 .. MaxDraws - 1 ELSE {0}}

InitCull ==
  \E seed \in 0 .. MaxSeeds - 1 :
    /\ db = Deal(CullPlayers, <<NULL, NULL>>, seed)
    /\ response = [op |-> "createGame", user |-> 1, status |-> 200, result |-> NULL]
    /\ flights = {}

CullAction ==
  \E req \in CullRequests(db, curPlayer(db)) : \E rnd \in CullDraws(req) :
    Handled("applyAction", curPlayer(db),
            applyAction(db, curPlayer(db), req, rnd))

NextCull == CullAction

SpecCull == InitCull /\ [][NextCull]_vars

\* ------------------------------------------------------------ races
\*
\* SpecRace plays as SpecCull does and, when the pile is empty and the
\* player to move can play ELIMINATE as the first card of the turn, lets
\* that player send up to MaxFlights calls that read the same log before
\* any of them writes.

\* Calls in flight at a time.
MaxFlights == 2

\* The requests that race: the best for each card and action of the hand.
RaceRequests(s, user) ==
  LET accepted == AcceptedRequests(s, user)
      slot(id, type) == {req \in accepted : req.cardId = id /\ req.type = type}
  IN {BestCull(s, user, slot(x[1], x[2]), MaxScore) :
        x \in {y \in (CardIds \cup {NULL}) \X ActionTypes :
                 slot(y[1], y[2]) # {}}}

\* The pile has not gone round yet: no more ELIMINATE entries than it holds.
FirstRound(s) ==
  Cardinality({i \in DOMAIN s.game_log : s.game_log[i].action = "ELIMINATE"})
    <= NumCharacters - CullPlayers

CullStep == flights = {} /\ FirstRound(db) /\ CullAction

\* A call reads the game, the users and the log, and finds its user to move.
RaceBegin ==
  /\ eliminable(db) = {} /\ FirstRound(db)
  /\ turnCount(db) = 3
  /\ \E req \in AcceptedRequests(db, curPlayer(db)) : req.type = "ELIMINATE"
  /\ Cardinality(flights) < MaxFlights
  /\ \A f \in flights : f.log = db.game_log
  /\ \E req \in RaceRequests(db, curPlayer(db)) :
       \E id \in (1 .. MaxFlights) \ {f.id : f \in flights} :
         flights' = flights \cup
                      {[id |-> id, user |-> curPlayer(db), req |-> req,
                        rnd |-> NoDraws, log |-> db.game_log]}
  /\ UNCHANGED <<db, response>>

\* A call in flight runs from its reading of the log to its response.
RaceFinish ==
  \E f \in flights :
    LET sent == afterLogRead(db, f.log, f.user, f.req, f.rnd)
    IN /\ db' = sent.db
       /\ response' = Response("applyAction", f.user, sent)
       /\ flights' = flights \ {f}

NextRace == CullStep \/ RaceBegin \/ RaceFinish

SpecRace == InitCull /\ [][NextRace]_vars

\* ------------------------------------------------------------ steps
\*
\* SpecSteps plays as SpecRush does and, on the brink, lets calls run
\* query by query: the handlers run no transaction, so that between two
\* queries of a call any query of another call may come.  A call in flight
\* is at the query it is to run next: an action that has run its resolver
\* and isFinished is at the UPDATE of the stage; a guess call that has
\* written its row is at isFinished, and then at the UPDATE of the stage.

\* POST /game/:gameId up to the UPDATE of the stage: the resolver has
\* written, the minimum stock is below 1, and isFinished has been read.
ActionResolve ==
  /\ Brink(db)
  /\ Cardinality(flights) < MaxFlights
  /\ \A f \in flights : f.op # "applyAction"
  /\ \E req \in AcceptedRequests(db, curPlayer(db)) :
       LET sent == applyAction(db, curPlayer(db), req, LongDraws)
       IN /\ minTokens(sent.db) < 1
          /\ db' = [sent.db EXCEPT !.game_stage = db.game_stage]
          /\ flights' = flights \cup
                          {[op |-> "applyAction", user |-> curPlayer(db),
                            at |-> "stage", stage |-> sent.db.game_stage,
                            result |-> sent.result]}
  /\ UNCHANGED response

\* The UPDATE of the stage, and the response.
ActionStage ==
  \E f \in flights :
    /\ f.op = "applyAction"
    /\ db' = [db EXCEPT !.game_stage = f.stage]
    /\ response' = Response(f.op, f.user, Sent(db', 200, f.result))
    /\ flights' = flights \ {f}

\* The guess handlers up to isFinished: the row is written or deleted.
GuessRow ==
  /\ Brink(db)
  /\ Cardinality(flights) < MaxFlights
  /\ \E user \in Guessers(db) : \E req \in LongGuessRequests(db, user) :
       \E op \in {"upsertGuess", "deleteGuess"} :
         LET sent == IF op = "upsertGuess" THEN upsertGuess(db, user, req)
                     ELSE deleteGuess(db, user, req)
         IN /\ \A f \in flights : f.user # user
            /\ db' = [sent.db EXCEPT !.game_stage = db.game_stage]
            /\ flights' = flights \cup
                            {[op |-> op, user |-> user, at |-> "isFinished",
                              stage |-> NoStage, result |-> NULL]}
  /\ UNCHANGED response

\* isFinished of a guess call: the call ends here when it returns false.
GuessCheck ==
  \E f \in flights :
    /\ f.at = "isFinished"
    /\ IF isFinished(db)
       THEN /\ flights' = (flights \ {f})
                            \cup {[f EXCEPT !.at = "stage", !.stage = "FINISHED"]}
            /\ UNCHANGED <<db, response>>
       ELSE /\ flights' = flights \ {f}
            /\ response' = Response(f.op, f.user, Sent(db, 200, NULL))
            /\ UNCHANGED db

\* The UPDATE of the stage of a guess call, and the response.
GuessStage ==
  \E f \in flights :
    /\ f.op # "applyAction" /\ f.at = "stage"
    /\ db' = [db EXCEPT !.game_stage = f.stage]
    /\ response' = Response(f.op, f.user, Sent(db', 200, NULL))
    /\ flights' = flights \ {f}

\* The calls of SpecRush, one at a time.
RushStep == flights = {} /\ NextRush

NextSteps ==
  RushStep \/ ActionResolve \/ ActionStage \/ GuessRow \/ GuessCheck \/ GuessStage

SpecSteps == InitRush /\ [][NextSteps]_vars

\* ------------------------------------------------------------ hands
\*
\* SpecHand plays as SpecStall does, through the whole deck, and lets the
\* player to move name cards that are not in the hand.

\* The cards that are in no hand and not in the draw pile.
discarded(s) ==
  {id \in CardIds :
     /\ s.game_card[id].deck_order = NULL
     /\ \A u \in DOMAIN s.game_user : <<id, u>> \notin s.game_user_card}

\* One card of each kind that is not in the hand of the user: of another
\* hand, of the draw pile, discarded, and none at all.
StrayCards(s, user) ==
  LET others == UNION {Hand(s, u) : u \in DOMAIN s.game_user \ {user}}
      first(S) == IF S = {} THEN {} ELSE {Min(S)}
  IN first(others) \cup first(drawPile(s)) \cup first(discarded(s))
     \cup {NumCards}

\* The card actions with a card id, the fields of each type filled in.
ActionsWith(s, user, id) ==
  {Request("MOVE", id, s.game_user[user].character, NULL, l, NULL) :
     l \in 0 .. MaxCell - 1}
  \cup {Request(type, id, NULL, NULL, NULL, NULL) :
          type \in {"ELIMINATE", "SPECIFIC_TOKEN"}}
  \cup {Request("PICK_TOKEN", id, NULL, t, NULL, NULL) : t \in Tokens}
  \cup {Request("SIGHT", id, NULL, NULL, NULL, u) : u \in DOMAIN s.game_user}

StrayCard ==
  /\ turnCount(db) = 3
  /\ \E id \in StrayCards(db, curPlayer(db)) :
       \E req \in ActionsWith(db, curPlayer(db), id) :
         Handled("applyAction", curPlayer(db),
                 applyAction(db, curPlayer(db), req, LongDraws))

NextHand == StallAction \/ StrayCard

SpecHand == InitStall /\ [][NextHand]_vars

\* ------------------------------------------------------------ guesses at large
\*
\* SpecGuess explores the guesses of the players about each other, with
\* the first moves of the game in between.  Every player may guess
\* character 0 of every other player; user 1 also guesses false, guesses
\* a second character, guesses about themself and sends malformed
\* requests; an outsider guesses too.

\* Characters a guess of user 1 may name: 0 .. MaxGuessChars - 1.
MaxGuessChars == 2
\* Log length up to which SpecGuess plays.
MaxGuessLog == 1

AnyGuessRequests(s, user) ==
  IF user = 1
  THEN {GuessRequest(c, 2, g) : c \in 0 .. MaxGuessChars - 1, g \in {0, 1}}
       \cup {GuessRequest(0, u, 1) : u \in DOMAIN s.game_user}
       \cup {GuessRequest(NULL, 2, 1), GuessRequest(0, NULL, 1),
             GuessRequest(0, 2, NULL), GuessRequest(0, Outsider, 1),
             GuessRequest(NumCharacters, 2, 1)}
  ELSE {GuessRequest(0, u, 1) : u \in DOMAIN s.game_user \ {user}}

InitGuess ==
  \E n \in MinPlayerCount .. MaxPlayers :
    /\ db = Deal(n, <<NULL, NULL>>, 0)
    /\ response = [op |-> "createGame", user |-> 1, status |-> 200, result |-> NULL]
    /\ flights = {}

AnyUpsertGuess ==
  \E user \in AllUsers(db) : \E req \in AnyGuessRequests(db, user) :
    Handled("upsertGuess", user, upsertGuess(db, user, req))

AnyDeleteGuess ==
  \E user \in AllUsers(db) : \E req \in AnyGuessRequests(db, user) :
    Handled("deleteGuess", user, deleteGuess(db, user, req))

GuessPlay ==
  /\ Len(db.game_log) <= MaxGuessLog
  /\ \E req \in RushRequests(db, curPlayer(db)) :
       Handled("applyAction", curPlayer(db),
               applyAction(db, curPlayer(db), req, LongDraws))

NextGuess == AnyUpsertGuess \/ AnyDeleteGuess \/ GuessPlay

SpecGuess == InitGuess /\ [][NextGuess]_vars

\* ------------------------------------------------------------ creation
\*
\* SpecCreate starts with no game, creates one for 0 .. MaxCreatePlayers
\* players and plays its first move.

\* Highest player count asked of PUT /game.
MaxCreatePlayers == 7
\* Log length up to which SpecCreate plays.
MaxCreateLog == 1

InitCreate ==
  /\ db = NoGame
  /\ response = [op |-> "none", user |-> NULL, status |-> NULL, result |-> NULL]
  /\ flights = {}

PutGame ==
  /\ db.game_stage = NoStage
  /\ \E playerCount \in 0 .. MaxCreatePlayers : \E dice \in Dice :
       \E seed \in 0 .. MaxSeeds - 1 :
         Handled("createGame", 1, putGame(db, playerCount, dice, seed))

CreatePlay ==
  /\ db.game_stage # NoStage
  /\ Len(db.game_log) <= MaxCreateLog
  /\ \E user \in AllUsers(db) :
       \E req \in IF user \in DOMAIN db.game_user THEN PlayRequests(db, user)
                  ELSE {Request("MOVE", NULL, 0, NULL, 1, NULL)} :
         Handled("applyAction", user, applyAction(db, user, req, NoDraws))

NextCreate == PutGame \/ CreatePlay

SpecCreate == InitCreate /\ [][NextCreate]_vars

\* ------------------------------------------------------------ properties

RECURSIVE Sum(_, _)
Sum(f, S) ==
  IF S = {} THEN 0 ELSE LET x == CHOOSE y \in S : TRUE
                        IN f[x] + Sum(f, S \ {x})

Players == DOMAIN db.game_user

\* The holdings of a token over all players.
Holdings(s, t) ==
  Sum([u \in DOMAIN s.game_user |-> s.game_user_token[<<u, t>>]],
      DOMAIN s.game_user)

\* The ROLL entry that started the turn: the last ROLL of the log.
TurnRoll ==
  LET log == db.game_log
  IN log[CHOOSE i \in 1 .. Len(log) :
           /\ log[i].action = "ROLL"
           /\ \A j \in i + 1 .. Len(log) : log[j].action # "ROLL"]

\* The entries of the turn after its ROLL.
TurnMoves ==
  LET log == db.game_log
  IN {i \in 1 .. Len(log) : \A j \in i .. Len(log) : log[j].action # "ROLL"}

\* The phase counter as the spec has it.
Phase == Cardinality(TurnMoves) + 1

\* Manhattan distance on the 4-wide grid.
Manhattan(a, b) == Abs((a % 4) - (b % 4)) + Abs((a \div 4) - (b \div 4))

Accepted(user, req) == applyAction(db, user, req, NoDraws).status = 200

\* The die matches the character: no result matches any.
Matches(die, c) == die = NULL \/ die = c

\* Each player has exactly one guess that holds about each other player.
DeductionComplete(s) ==
  \A u \in DOMAIN s.game_user : \A v \in DOMAIN s.game_user \ {u} :
    \E g \in s.game_user_guess :
      /\ g.app_user = u /\ g.target_user = v /\ g.guess
      /\ \A h \in s.game_user_guess :
           (h.app_user = u /\ h.target_user = v /\ h.guess) => h = g

\* The game_order of the user of the i-th entry of a log.
OrderOf(log, i) == db.game_user[log[i].app_user].game_order

\* The two action types of a card.
CardActions(id) == {db.game_card[id].action1, db.game_card[id].action2}

\* What C3 lists of the store: all but the guesses.
Board(s) ==
  [x \in DOMAIN s \ {"game_user_guess"} |-> s[x]]

\* The requests C7 ranges over: every type, character and cell.
C7_Requests ==
  {Request(type, NULL, c, NULL, l, NULL) :
     type \in {"MOVE", "ELIMINATE"}, c \in Characters \cup {NULL},
     l \in Cells \cup {NULL}}
  \cup {Request(type, id, NULL, t, NULL, u) :
          type \in ActionTypes \ {"MOVE"}, id \in {NULL, 0}, t \in {NULL, 0},
          u \in {NULL, 1}}

\* The requests C8 ranges over: every card and action type.
C8_Requests ==
  {Request("MOVE", id, c, NULL, l, NULL) :
     id \in CardIds \cup {NULL}, c \in RequestCharacters, l \in RequestCells}
  \cup {Request(type, id, NULL, NULL, NULL, NULL) :
          type \in {"ELIMINATE", "SPECIFIC_TOKEN", "ROLL"},
          id \in CardIds \cup {NULL}}
  \cup {Request("PICK_TOKEN", id, NULL, t, NULL, NULL) :
          id \in CardIds \cup {NULL}, t \in Tokens}
  \cup {Request("SIGHT", id, NULL, NULL, NULL, u) :
          id \in CardIds \cup {NULL}, u \in Players}

\* ------------------------------------------------------------ claims

\* C1: the phase counter, the length of the run of entries by the last
\* entry's user that ends the log, is between 1 and 4 in every state.
C1_PhaseCounter == turnCount(db) \in 1 .. 4

\* C2: once the stage is FINISHED it stays FINISHED.
C2_FinishedStays ==
  [][db.game_stage = "FINISHED" => db'.game_stage = "FINISHED"]_vars

\* C3: a call of applyAction that ends in an error, the error of the empty
\* deck included, leaves the log, the characters, the stocks, the holdings,
\* the hands, the draw pile and the stage as they were.
C3_ErrorsChangeNothing ==
  \A req \in PlayRequests(db, curPlayer(db)) :
    LET sent == applyAction(db, curPlayer(db), req, LongDraws)
    IN sent.status # 200 => Board(sent.db) = Board(db)

\* C4: for every token type, the stock plus the holdings of all players is
\* the initial allocation, the player count + 2.
C4_TokenConservation ==
  \A t \in Tokens :
    db.game_token[t] + Holdings(db, t) = Cardinality(Players) + 2

C4_Witness ==
  \E t \in Tokens : Holdings(db, t) > 0 /\ response.status # 200

\* C5: a request of a user who is not the active player, a participant or
\* not, is rejected and the store is as it was.
C5_NotYourTurn ==
  \A user \in AllUsers(db) \ {lastPlayerId(db)} :
    \A req \in Requests(db, lastPlayerId(db)) : \A rnd \in Draws(db, req) :
      LET sent == applyAction(db, user, req, rnd)
      IN sent.status # 200 /\ sent.db = db

C5_Witness ==
  /\ response.op = "applyAction"
  /\ response.user = Outsider
  /\ response.status = 404
  /\ Len(db.game_log) > 1
  /\ \E req \in Requests(db, lastPlayerId(db)) : Accepted(lastPlayerId(db), req)

\* C6: the forced move of character c to a cell next to it is accepted, in
\* phase 1, iff c matches die1 or die2 of the turn's ROLL; in phase 2, iff
\* the character c1 moved in phase 1 and c can be paired with the two dice
\* in one of the two orders.
C6_DiceCheck ==
  Phase \in {1, 2} =>
    \A c \in Characters : \A l \in Cells :
      Manhattan(db.game_character[c].location, l) = 1 =>
        LET die1 == TurnRoll.die1
            die2 == TurnRoll.die2
            c1 == lastLog(db).character
        IN Accepted(lastPlayerId(db), Request("MOVE", NULL, c, NULL, l, NULL))
           <=> IF Phase = 1
               THEN Matches(die1, c) \/ Matches(die2, c)
               ELSE \E d \in {<<die1, die2>>, <<die2, die1>>} :
                      Matches(d[1], c1) /\ Matches(d[2], c)

C6_Witness ==
  /\ Len(db.game_log) = 3
  /\ response.op = "applyAction" /\ response.status = 200
  /\ db.game_log[1].die1 # NULL /\ db.game_log[1].die2 # NULL
  /\ db.game_log[2].character = db.game_log[1].die2
  /\ db.game_log[3].character = db.game_log[1].die1

\* C7: in phases 1 and 2 a request is accepted only if it is a MOVE to a
\* cell at Manhattan distance 1 of the character; any other request is
\* rejected and leaves the log and the characters as they were.
C7_ForcedMove ==
  Phase \in {1, 2} =>
    \A req \in C7_Requests :
      LET sent == applyAction(db, lastPlayerId(db), req, NoDraws)
      IN IF sent.status = 200
         THEN /\ req.type = "MOVE"
              /\ Manhattan(db.game_character[req.characterId].location,
                           req.moveTo) = 1
         ELSE /\ sent.db.game_log = db.game_log
              /\ sent.db.game_character = db.game_character

C7_Witness ==
  /\ Phase = 2
  /\ response.op = "applyAction"
  /\ response.user = lastPlayerId(db)
  /\ response.status = 400

\* C8: a phase-4 request is accepted only with the card of the phase-3 entry
\* and the other action type of that card; so the phase-3 and phase-4
\* entries of every turn carry one card and its two action types.
C8_SameCardOtherAction ==
  /\ Phase = 4 =>
       \A req \in C8_Requests :
         Accepted(lastPlayerId(db), req) =>
           /\ req.cardId = lastLog(db).card
           /\ req.type # lastLog(db).action
           /\ CardActions(req.cardId) = {lastLog(db).action, req.type}
  /\ \A i \in 1 .. Len(db.game_log) - 4 :
       LET log == db.game_log
       IN (/\ log[i].action = "ROLL"
           /\ \A j \in i + 1 .. i + 4 : log[j].action # "ROLL")
          => /\ log[i + 3].card = log[i + 4].card
             /\ log[i + 3].card # NULL
             /\ log[i + 3].action # log[i + 4].action
             /\ CardActions(log[i + 3].card)
                  = {log[i + 3].action, log[i + 4].action}

C8_Witness ==
  /\ Len(db.game_log) >= 6
  /\ db.game_log[6].action = "ROLL"
  /\ response.op = "applyAction" /\ response.status = 200

\* C9: an accepted action of phase 3 or 4 that leaves a token with a stock
\* of 0 leaves the stage FINISHED if the deduction is complete and GUESSING
\* if not, and appends its own entry to the log and no ROLL.
C9_StageAtDepletion ==
  turnCount(db) \in {3, 4} =>
    \A req \in AcceptedRequests(db, curPlayer(db)) :
      LET sent == applyAction(db, curPlayer(db), req, LongDraws)
          log == sent.db.game_log
      IN minTokens(sent.db) = 0 =>
           /\ sent.db.game_stage =
                IF DeductionComplete(sent.db) THEN "FINISHED" ELSE "GUESSING"
           /\ Len(log) = Len(db.game_log) + 1
           /\ log[Len(log)].action = req.type

C9_Witness ==
  /\ response.op = "applyAction" /\ response.status = 200
  /\ minTokens(db) = 0
  /\ lastLog(db).action \in {"PICK_TOKEN", "SPECIFIC_TOKEN"}
  /\ db.game_stage = "FINISHED"
  /\ DeductionComplete(db)

\* C10: an accepted phase-4 action that leaves every stock at 1 or more is
\* followed in the log by a ROLL of the player with order (k + 1) mod N, k
\* the order of the acting player; so the ROLLs of the log go round the
\* players in order, from 0.
C10_NextPlayer ==
  LET N == Cardinality(Players)
      rolls == {i \in 1 .. Len(db.game_log) : db.game_log[i].action = "ROLL"}
  IN /\ turnCount(db) = 4 =>
          \A req \in AcceptedRequests(db, curPlayer(db)) :
            LET sent == applyAction(db, curPlayer(db), req, LongDraws)
                log == sent.db.game_log
                n == Len(db.game_log)
            IN (\A t \in Tokens : sent.db.game_token[t] >= 1) =>
                 /\ Len(log) = n + 2
                 /\ log[n + 2].action = "ROLL"
                 /\ OrderOf(log, n + 2) = (OrderOf(log, n + 1) + 1) % N
     /\ \A i \in rolls :
          IF \A j \in rolls : i <= j THEN OrderOf(db.game_log, i) = 0
          ELSE LET before == CHOOSE j \in rolls :
                               j < i /\ \A k \in rolls : ~ (j < k /\ k < i)
               IN OrderOf(db.game_log, i)
                    = (OrderOf(db.game_log, before) + 1) % N

C10_Witness ==
  \E i \in 2 .. Len(db.game_log) :
    /\ db.game_log[i].action = "ROLL"
    /\ OrderOf(db.game_log, i) = 0
    /\ OrderOf(db.game_log, i - 1) = Cardinality(Players) - 1
    /\ response.op = "applyAction" /\ response.status = 200

\* The characters user a guesses, with guess = true, for player b.
HeldTrue(s, a, b) ==
  {c \in Characters :
     [app_user |-> a, character |-> c, target_user |-> b, guess |-> TRUE]
       \in s.game_user_guess}

\* C11: the completion check returns true exactly when, for every ordered
\* pair of distinct players (A, B), the guess records of A about B with
\* guess = true, counted over all characters, number exactly one.
C11_CompletionCheck ==
  isFinished(db)
    <=> \A a \in Players : \A b \in Players \ {a} :
          Cardinality(HeldTrue(db, a, b)) = 1

\* The check fails after a call that left user 1 with two guesses that
\* hold about player 2, every other pair having its one.
C11_Witness ==
  /\ response.op = "upsertGuess" /\ response.status = 200
  /\ Cardinality(HeldTrue(db, 1, 2)) = 2
  /\ \A a \in Players : \A b \in Players \ {a} : HeldTrue(db, a, b) # {}
  /\ ~ isFinished(db)

\* The guess of the request is recorded, with guess = true, for its triple.
HoldsTrue(s, user, req) ==
  [app_user |-> user, character |-> req.characterId,
   target_user |-> req.userId, guess |-> TRUE] \in s.game_user_guess

\* The call would turn a recorded guess = true into guess = false.
TurnsFalse(s, user, req) == req.guess = 0 /\ HoldsTrue(s, user, req)

\* The call would record a guess = true that is not yet recorded as true.
AddsTrue(s, user, req) == req.guess = 1 /\ ~ HoldsTrue(s, user, req)

\* C12: once the completion check holds, it keeps holding after every
\* applyAction call, and after every upsertGuess call that neither turns
\* a recorded guess to false nor records a guess = true not recorded as
\* true before.
C12_CompletionKept ==
  isFinished(db) =>
    /\ \A user \in Players : \A req \in PlayRequests(db, user) :
         isFinished(applyAction(db, user, req, NoDraws).db)
    /\ \A user \in AllUsers(db) : \A req \in AnyGuessRequests(db, user) :
         (~ TurnsFalse(db, user, req) /\ ~ AddsTrue(db, user, req))
           => isFinished(upsertGuess(db, user, req).db)

\* C12 as stated: the check keeps holding after every applyAction call
\* and every upsertGuess call that does not turn a recorded guess to false.
C12_CompletionMonotonic ==
  isFinished(db) =>
    /\ \A user \in Players : \A req \in PlayRequests(db, user) :
         isFinished(applyAction(db, user, req, NoDraws).db)
    /\ \A user \in AllUsers(db) : \A req \in AnyGuessRequests(db, user) :
         ~ TurnsFalse(db, user, req)
           => isFinished(upsertGuess(db, user, req).db)

\* The check holds after a guess call, and a further guess = false of
\* user 1 changes the guesses and leaves it holding.
C12_Witness ==
  /\ response.op = "upsertGuess" /\ response.status = 200
  /\ isFinished(db)
  /\ \E req \in AnyGuessRequests(db, 1) :
       /\ req.guess = 0 /\ ~ TurnsFalse(db, 1, req)
       /\ upsertGuess(db, 1, req).db.game_user_guess # db.game_user_guess
       /\ isFinished(upsertGuess(db, 1, req).db)

\* Every player holds exactly one guess = true about every other player.
OneEach(s) ==
  \A a \in DOMAIN s.game_user : \A b \in DOMAIN s.game_user \ {a} :
    Cardinality(HeldTrue(s, a, b)) = 1

\* The stage after a guess call: FINISHED when the guesses the call
\* leaves are complete, the stage before the call when they are not.
StageFollows(sent) ==
  sent.db.game_stage =
    IF OneEach(sent.db) THEN "FINISHED" ELSE db.game_stage

\* C13: after every upsertGuess or deleteGuess call, the stage is FINISHED
\* if the completion check holds on the resulting guesses, and is the
\* stage before the call if it does not.
C13_StageAfterGuess ==
  \A user \in AllUsers(db) : \A req \in AnyGuessRequests(db, user) :
    /\ StageFollows(upsertGuess(db, user, req))
    /\ StageFollows(deleteGuess(db, user, req))

\* A guess call left the guesses incomplete and the stage PLAYING, and
\* deleting the second guess of user 1 about player 2 completes them.
C13_Witness ==
  /\ response.op = "upsertGuess" /\ response.status = 200
  /\ db.game_stage = "PLAYING" /\ ~ OneEach(db)
  /\ \E req \in AnyGuessRequests(db, 1) :
       /\ OneEach(deleteGuess(db, 1, req).db)
       /\ deleteGuess(db, 1, req).db.game_stage = "FINISHED"

\* C15: a createGame call with a player count outside 2..6 fails with an
\* invalid-argument error and leaves no game record, nor any other state
\* of the game, behind.
C15_NoGameOnBadCount ==
  db.game_stage = NoStage =>
    \A playerCount \in (0 .. MaxCreatePlayers) \ (MinPlayerCount .. MaxPlayerCount) :
      \A dice \in Dice : \A seed \in 0 .. MaxSeeds - 1 :
        LET sent == putGame(db, playerCount, dice, seed)
        IN sent.status = 400 /\ sent.db = NoGame

\* C16: immediately after a successful createGame with N players the stage
\* is PLAYING, the log has exactly one entry, a ROLL by the first supplied
\* player, every player holds exactly 2 cards and each of the 3 tokens
\* has stock N + 2.
C16_AfterCreate ==
  (response.op = "createGame" /\ response.status = 200) =>
    LET N == Cardinality(Players)
    IN /\ db.game_stage = "PLAYING"
       /\ Len(db.game_log) = 1
       /\ db.game_log[1].action = "ROLL" /\ db.game_log[1].app_user = 1
       /\ \A u \in Players :
            Cardinality({k \in db.game_user_card : k[2] = u}) = 2
       /\ DOMAIN db.game_token = 0 .. 2
       /\ \A t \in DOMAIN db.game_token : db.game_token[t] = N + 2

\* A game of six players has just been created.
C16_Witness ==
  /\ response.op = "createGame" /\ response.status = 200
  /\ Cardinality(Players) = 6

\* C17: in every reachable state the order values of the players are
\* exactly 0 .. N-1, without gaps or duplicates, every player has one
\* character, and no character belongs to two players.
C17_OrdersAndCharacters ==
  LET N == Cardinality(Players)
  IN /\ {db.game_user[u].game_order : u \in Players} = 0 .. N - 1
     /\ \A u \in Players : \A v \in Players \ {u} :
          /\ db.game_user[u].game_order # db.game_user[v].game_order
          /\ db.game_user[u].character # db.game_user[v].character
     /\ \A u \in Players : db.game_user[u].character \in Characters

\* Five players, after an accepted first move.
C17_Witness ==
  /\ response.op = "applyAction" /\ response.status = 200
  /\ Cardinality(Players) = 5
  /\ Len(db.game_log) = 2

\* The characters marked as eliminated.
Eliminated(s) == {c \in Characters : s.game_character[c].eliminated}

\* The characters of the players.
Taken(s) == {s.game_user[u].character : u \in DOMAIN s.game_user}

\* The ELIMINATE requests of the player to move, with every card of the hand.
C18_Requests ==
  {Request("ELIMINATE", id, NULL, NULL, NULL, NULL) :
     id \in Hand(db, curPlayer(db))}

\* C18: an ELIMINATE that passes the validation never fails for lack of a
\* candidate: it logs, marks and returns a character of no player.  When
\* every such character is already eliminated, all flags are reset first,
\* so that the returned character is then the only one eliminated.
C18_PileGoesRound ==
  \A req \in C18_Requests : \A rnd \in CullDraws(req) :
    LET sent == applyAction(db, curPlayer(db), req, rnd)
        e == sent.db.game_log[Len(db.game_log) + 1]
    IN sent.status # 400 =>
         /\ sent.status = 500 => (drawPile(db) = {} /\ turnCount(db) = 4)
         /\ e.action = "ELIMINATE"
         /\ e.character \in Characters \ Taken(db)
         /\ sent.status = 200 => sent.result = e.character
         /\ Eliminated(sent.db) =
              IF Characters \ Taken(db) \subseteq Eliminated(db)
              THEN {e.character}
              ELSE Eliminated(db) \cup {e.character}
         /\ Characters \ Taken(db) \subseteq Eliminated(db)
              \/ e.character \notin Eliminated(db)

\* The pile has gone round: an ELIMINATE was accepted when every character
\* of no player was eliminated, and its character is the only one marked.
C18_Witness ==
  /\ response.op = "applyAction" /\ response.status = 200
  /\ lastLog(db).action = "ELIMINATE"
  /\ Cardinality({i \in DOMAIN db.game_log :
                    db.game_log[i].action = "ELIMINATE"})
       = NumCharacters - CullPlayers + 1
  /\ Eliminated(db) = {response.result}

\* C14: of two applyAction calls that read the same log tail, the one
\* that finds the log longer when it comes to write fails and leaves the
\* log, the eliminated flags, the locations, the tokens, the hands and the
\* stage as they are.
C14_RaceLoserChangesNothing ==
  \A f \in flights :
    Len(db.game_log) > Len(f.log) =>
      LET sent == afterLogRead(db, f.log, f.user, f.req, f.rnd)
      IN sent.status # 200 /\ Board(sent.db) = Board(db)

\* The cell of the character of a player.
CellOf(s, user) == s.game_character[s.game_user[user].character].location

\* The PICK_TOKEN requests of the player to move: every card of the hand,
\* every token, no token and a token that is none.
C19_Requests ==
  {Request("PICK_TOKEN", id, NULL, t, NULL, NULL) :
     id \in Hand(db, curPlayer(db)), t \in Tokens \cup {NULL, NumTokens}}

\* C19: PICK_TOKEN is accepted only if the cell of the acting player's own
\* character is one of the locations of the token; otherwise the call is
\* rejected and the stocks and the holdings are as before.
C19_PickTokenWhereItLies ==
  \A req \in C19_Requests :
    LET user == curPlayer(db)
        sent == applyAction(db, user, req, NoDraws)
        lies == /\ req.tokenId \in Tokens
                /\ CellOf(db, user) \in tokenLocations[req.tokenId + 1]
    IN /\ sent.status = 200 => lies
       /\ ~ lies => /\ sent.status = 400
                    /\ sent.db.game_token = db.game_token
                    /\ sent.db.game_user_token = db.game_user_token

\* A token was picked up, and the player to move could not pick up another.
C19_Witness ==
  /\ response.op = "applyAction" /\ response.status = 200
  /\ lastLog(db).action = "PICK_TOKEN"
  /\ \E t \in Tokens : CellOf(db, curPlayer(db)) \notin tokenLocations[t + 1]

\* The SIGHT requests of the player to move: every card of the hand and
\* every player as the target.
C20_Requests ==
  {Request("SIGHT", id, NULL, NULL, NULL, u) :
     id \in Hand(db, curPlayer(db)), u \in Players}

\* C20: the result of an accepted SIGHT is true exactly when the cell of
\* the character bound to the card slot and the cell of the target
\* player's character share a column (cell mod 4) or a row (cell div 4),
\* and the SIGHT log entry records that boolean.
C20_SightResult ==
  \A req \in C20_Requests :
    LET sent == applyAction(db, curPlayer(db), req, NoDraws)
        e == sent.db.game_log[Len(db.game_log) + 1]
        a == db.game_character[db.game_card[req.cardId].character2].location
        b == CellOf(db, req.sightUserId)
        inLine == a % 4 = b % 4 \/ a \div 4 = b \div 4
    IN sent.status = 200 =>
         /\ sent.result = (IF inLine THEN 1 ELSE 0)
         /\ e.action = "SIGHT" /\ e.sight_user = req.sightUserId
         /\ e.sight_result = sent.result

\* A SIGHT was accepted along a row: not in the same column, and seen.
C20_Witness ==
  /\ response.op = "applyAction" /\ response.status = 200
  /\ lastLog(db).action = "SIGHT" /\ lastLog(db).sight_result = 1
  /\ db.game_character[lastLog(db).character].location % 4
       # CellOf(db, lastLog(db).sight_user) % 4

\* The requests of C21: every card action with every card id, existing or
\* not, that is not in the hand of the player to move.
C21_Requests ==
  UNION {ActionsWith(db, curPlayer(db), id) :
           id \in (CardIds \cup {NumCards}) \ Hand(db, curPlayer(db))}

\* C21: a phase-3 action whose cardId is not a card of the acting player's
\* hand (a card of another hand, of the draw pile, discarded or
\* nonexistent) is rejected and changes nothing.
C21_CardNotInHand ==
  turnCount(db) = 3 =>
    \A req \in C21_Requests :
      LET sent == applyAction(db, curPlayer(db), req, NoDraws)
      IN sent.status \in {400, 404} /\ sent.db = db

\* A phase-3 action with a discarded card was rejected.
C21_Witness ==
  /\ response.op = "applyAction" /\ response.status = 400
  /\ turnCount(db) = 3
  /\ discarded(db) # {}
  /\ \E u \in Players \ {curPlayer(db)} : Hand(db, u) # {}
  /\ drawPile(db) # {}

\* The cards of the hand of the player to move that can be played as
\* type in this phase.
Playable(type) ==
  {id \in Hand(db, curPlayer(db)) :
     /\ type \in {db.game_card[id].action1, db.game_card[id].action2}
     /\ turnCount(db) = 4 =>
          (id = lastLog(db).card /\ lastLog(db).action # type)}

\* The call got as far as the draw of the next card and found no card.
OutOfCards(sent) ==
  sent.status = 500 /\ turnCount(db) = 4 /\ drawPile(db) = {}

\* C22: a MOVE at phase 3 or 4 to the cell where the character stands is
\* rejected, with the log and the location as before; to any other cell
\* of 0 .. 11 it is accepted, whatever the distance.
C22_CardMove ==
  turnCount(db) \in {3, 4} =>
    \A id \in Playable("MOVE") : \A c \in Characters : \A l \in Cells :
      LET sent == applyAction(db, curPlayer(db),
                              Request("MOVE", id, c, NULL, l, NULL), NoDraws)
          e == sent.db.game_log[Len(db.game_log) + 1]
      IN IF l = db.game_character[c].location
         THEN /\ sent.status = 400
              /\ sent.db.game_log = db.game_log
              /\ sent.db.game_character = db.game_character
         ELSE /\ sent.status = 200 \/ OutOfCards(sent)
              /\ e.action = "MOVE" /\ e.character = c
              /\ sent.db.game_character[c].location = l

\* A MOVE of a card was accepted over more than one step.
C22_Witness ==
  /\ response.op = "applyAction" /\ response.status = 200
  /\ turnCount(db) = 4
  /\ lastLog(db).action = "MOVE" /\ lastLog(db).card # NULL
  /\ Manhattan(lastLog(db).move_from,
               db.game_character[lastLog(db).character].location) > 1

\* C23: in the view of V, the guesses of a player P other than V are
\* included exactly when the stage is FINISHED, and the guesses of V in
\* every stage.
C23_GuessesInView ==
  \A V \in Players :
    LET view == getGame(db, V).result
    IN \A P \in Players :
         /\ view.users[P].guesses \in {None, Some(guessesOf(db, P))}
         /\ view.users[P].guesses # None
              <=> (P = V \/ db.game_stage = "FINISHED")

\* A player got the finished game, with the guess of another player in it.
C23_Witness ==
  /\ response.op = "getGame" /\ response.status = 200
  /\ db.game_stage = "FINISHED"
  /\ \E P \in Players \ {response.user} :
       /\ response.result.users[P].guesses # None
       /\ guessesOf(db, P) # {}

\* C24: in the view of V, the character of an ELIMINATE log entry is shown
\* when V is the acting player, in every stage, and when the stage is
\* FINISHED, to every viewer; it is hidden otherwise.
C24_EliminatedInView ==
  \A V \in Players :
    LET view == getGame(db, V).result
    IN \A i \in DOMAIN db.game_log :
         db.game_log[i].action = "ELIMINATE" =>
           (view.log[i].character # None
              <=> (V = db.game_log[i].app_user \/ db.game_stage = "FINISHED"))

\* The users that hold a card.
Holders(s, id) == {u \in DOMAIN s.game_user : <<id, u>> \in s.game_user_card}

\* C25: every card is in at most one hand, and a card with a deck order is
\* in no hand: no card is in a hand and in the draw pile at once.  (The
\* cards in no hand and with no deck order are the discarded ones.)
C25_HandOrPile ==
  /\ \A k \in db.game_user_card : k[1] \in CardIds /\ k[2] \in Players
  /\ \A id \in CardIds :
       /\ Cardinality(Holders(db, id)) <= 1
       /\ db.game_card[id].deck_order # NULL => Holders(db, id) = {}
       /\ id \in discarded(db)
            <=> (Holders(db, id) = {} /\ id \notin drawPile(db))

\* Late in the game: cards in hands, in the draw pile and discarded.
C25_Witness ==
  /\ response.op = "applyAction" /\ response.status = 200
  /\ Cardinality(discarded(db)) >= StallPlayers
  /\ drawPile(db) # {}
  /\ \A u \in Players : Cardinality(Hand(db, u)) = HandSize

\* The card of the draw pile with the smallest deck order.
TopCard(s) ==
  CHOOSE id \in CardIds :
    /\ s.game_card[id].deck_order # NULL
    /\ \A o \in CardIds :
         s.game_card[o].deck_order # NULL
           => s.game_card[id].deck_order <= s.game_card[o].deck_order

\* C26: when a phase-4 action is accepted with every stock at least 1 and
\* a draw pile that is not empty, the card of the turn leaves the hand of
\* the acting player, the card of the draw pile with the smallest deck
\* order enters that hand with its deck order cleared, and no other hand
\* or deck order changes.
C26_DiscardAndDraw ==
  (turnCount(db) = 4 /\ drawPile(db) # {}) =>
    \A req \in PlayRequests(db, curPlayer(db)) :
      LET user == curPlayer(db)
          sent == applyAction(db, user, req, NoDraws)
      IN (sent.status = 200 /\ minTokens(sent.db) >= 1) =>
           /\ sent.db.game_user_card =
                (db.game_user_card \ {<<lastLog(db).card, user>>})
                  \cup {<<TopCard(db), user>>}
           /\ \A id \in CardIds :
                sent.db.game_card[id].deck_order =
                  IF id = TopCard(db) THEN NULL
                  ELSE db.game_card[id].deck_order

\* A turn has just ended with a discard and a draw: one card is discarded,
\* the player who ended the turn has a full hand again, and the roll of
\* the next player is the last log entry.
C26_Witness ==
  /\ response.op = "applyAction" /\ response.status = 200
  /\ lastLog(db).action = "ROLL" /\ Len(db.game_log) > 1
  /\ Cardinality(discarded(db)) = 1
  /\ Cardinality(Hand(db, response.user)) = HandSize
  /\ response.user # curPlayer(db)

\* C27: when a phase-4 action completes with every stock at least 1 and
\* the draw pile is empty, the call fails with a fatal error; the discards
\* are not shuffled back in, and the hand gets no card.
C27_DeckExhausted ==
  (turnCount(db) = 4 /\ drawPile(db) = {}) =>
    \A req \in PlayRequests(db, curPlayer(db)) :
      LET user == curPlayer(db)
          sent == applyAction(db, user, req, NoDraws)
      IN (sent.db.game_log # db.game_log /\ minTokens(sent.db) >= 1) =>
           /\ sent.status = 500
           /\ drawPile(sent.db) = {}
           /\ Hand(sent.db, user) = Hand(db, user) \ {lastLog(db).card}

\* The call that ended a turn with the draw pile empty has failed.
C27_Witness ==
  /\ response.op = "applyAction" /\ response.status = 500
  /\ drawPile(db) = {}
  /\ lastLog(db).action = "ROLL"
  /\ Cardinality(Hand(db, response.user)) = HandSize - 1

\* C28: an accepted MOVE of phase 1 or 2 appends one MOVE log entry of the
\* acting player with the character moved and the cell it stood on, puts
\* the character on moveTo, and leaves the cells of the other characters,
\* the eliminated flags, the stocks, the holdings, the hands, the draw pile
\* and the stage as they were.
C28_ForcedMoveFrame ==
  turnCount(db) \in {1, 2} =>
    \A req \in MoveRequests :
      LET user == curPlayer(db)
          sent == applyAction(db, user, req, NoDraws)
          after == sent.db
          c == req.characterId
      IN sent.status = 200 =>
           /\ Len(after.game_log) = Len(db.game_log) + 1
           /\ SubSeq(after.game_log, 1, Len(db.game_log)) = db.game_log
           /\ lastLog(after).app_user = user
           /\ lastLog(after).action = "MOVE"
           /\ lastLog(after).character = c
           /\ lastLog(after).move_from = db.game_character[c].location
           /\ after.game_character[c].location = req.moveTo
           /\ \A o \in Characters \ {c} :
                after.game_character[o].location = db.game_character[o].location
           /\ \A o \in Characters :
                after.game_character[o].eliminated = db.game_character[o].eliminated
           /\ after.game_token = db.game_token
           /\ after.game_user_token = db.game_user_token
           /\ after.game_user_card = db.game_user_card
           /\ after.game_card = db.game_card
           /\ after.game_stage = db.game_stage

\* The second forced move was accepted: the log ends with two MOVE entries
\* and the character moved last stands one step from where it stood.
C28_Witness ==
  /\ response.op = "applyAction" /\ response.status = 200
  /\ turnCount(db) = 3
  /\ lastLog(db).action = "MOVE"
  /\ db.game_character[lastLog(db).character].location # lastLog(db).move_from

\* C29: the character of an accepted ELIMINATE is the character of no
\* player, and it was not eliminated when it was chosen (the flags being
\* those after the reset, when the pile had gone round); no character of a
\* player is ever eliminated.
C29_NeverAPlayer ==
  /\ Taken(db) \cap Eliminated(db) = {}
  /\ \A req \in C18_Requests : \A rnd \in CullDraws(req) :
       LET sent == applyAction(db, curPlayer(db), req, rnd)
           reset == Characters \ Taken(db) \subseteq Eliminated(db)
       IN sent.status = 200 =>
            /\ sent.result \in Characters
            /\ sent.result \notin Taken(db)
            /\ ~ reset => ~ db.game_character[sent.result].eliminated
            /\ sent.db.game_character[sent.result].eliminated
            /\ Taken(db) \cap Eliminated(sent.db) = {}

\* Two characters are eliminated, the second one just now, and the players
\* have theirs.
C29_Witness ==
  /\ response.op = "applyAction" /\ response.status = 200
  /\ lastLog(db).action = "ELIMINATE"
  /\ response.result \in Eliminated(db)
  /\ Cardinality(Eliminated(db)) = 2
  /\ Cardinality(Taken(db)) = CullPlayers

\* The SPECIFIC_TOKEN requests of the player to move: every card of the
\* hand, with every token, no token and a token that is none.
C30_Requests ==
  {Request("SPECIFIC_TOKEN", id, NULL, t, NULL, NULL) :
     id \in Hand(db, curPlayer(db)), t \in Tokens \cup {NULL, NumTokens}}

\* The token bound to the SPECIFIC_TOKEN slot of a card.
BoundToken(s, id) ==
  IF s.game_card[id].action1 = "SPECIFIC_TOKEN"
  THEN s.game_card[id].token1 ELSE s.game_card[id].token2

\* C30: an accepted SPECIFIC_TOKEN adds one to the acting player's holding
\* of the token bound to the card slot and takes one from the stock of
\* that token, whatever tokenId the request carries and wherever the
\* character of the player stands: the request's tokenId changes nothing.
C30_SpecificToken ==
  \A req \in C30_Requests :
    LET user == curPlayer(db)
        sent == applyAction(db, user, req, NoDraws)
        bare == applyAction(db, user, [req EXCEPT !.tokenId = NULL], NoDraws)
        t == BoundToken(db, req.cardId)
    IN /\ sent = bare
       /\ sent.status = 200 =>
            /\ t \in Tokens
            /\ sent.db.game_user_token =
                 [db.game_user_token EXCEPT ![<<user, t>>] = @ + 1]
            /\ sent.db.game_token = [db.game_token EXCEPT ![t] = @ - 1]
            /\ sent.db.game_log[Len(db.game_log) + 1].token = t

\* A token was taken with a SPECIFIC_TOKEN card by a player whose
\* character stands on no cell of that token.
C30_Witness ==
  /\ response.op = "applyAction" /\ response.status = 200
  /\ lastLog(db).action = "SPECIFIC_TOKEN"
  /\ db.game_user_token[<<lastLog(db).app_user, lastLog(db).token>>] >= 1
  /\ CellOf(db, lastLog(db).app_user) \notin tokenLocations[lastLog(db).token + 1]

\* The entries a store has after the entries of the log of s.
Appended(s, after) ==
  SubSeq(after.game_log, Len(s.game_log) + 1, Len(after.game_log))

\* The player after user in the order of play.
PlayerAfter(s, user) ==
  CHOOSE u \in DOMAIN s.game_user :
    s.game_user[u].game_order =
      (s.game_user[user].game_order + 1) % Cardinality(DOMAIN s.game_user)

\* The ids of the log are 0, 1, 2, ... in the order of the entries.
IdsInOrder(s) == \A i \in DOMAIN s.game_log : s.game_log[i].id = i - 1

\* An accepted call of the player to move appends one entry of that player
\* and, when it ends the turn, the ROLL of the next player.
AppendsOne ==
  \A req \in PlayRequests(db, curPlayer(db)) :
    LET user == curPlayer(db)
        sent == applyAction(db, user, req, NoDraws)
        new == Appended(db, sent.db)
        ends == turnCount(db) = 4 /\ minTokens(sent.db) >= 1
    IN sent.status = 200 =>
         /\ Len(sent.db.game_log) >= Len(db.game_log)
         /\ SubSeq(sent.db.game_log, 1, Len(db.game_log)) = db.game_log
         /\ Len(new) = IF ends THEN 2 ELSE 1
         /\ new[1].app_user = user /\ new[1].action = req.type
         /\ ends => /\ new[2].action = "ROLL"
                    /\ new[2].app_user = PlayerAfter(db, user)

\* C31: the log is append-only with the ids 0, 1, 2, ... and no gap: no
\* step changes or removes an entry, and an accepted applyAction appends
\* one entry of the acting player, followed by one ROLL entry of the next
\* player when the turn advances.
C31_LogAppendOnly ==
  /\ [](IdsInOrder(db) /\ AppendsOne)
  /\ [][/\ Len(db.game_log') >= Len(db.game_log)
        /\ SubSeq(db.game_log', 1, Len(db.game_log)) = db.game_log]_vars

\* A turn has been played to its end: the log ends with the roll of the
\* next player after four entries of the player before.
C31_Witness ==
  /\ response.op = "applyAction" /\ response.status = 200
  /\ Len(db.game_log) >= 6
  /\ lastLog(db).action = "ROLL"
  /\ lastLog(db).id = Len(db.game_log) - 1
  /\ db.game_log[Len(db.game_log) - 1].app_user = response.user
  /\ lastLog(db).app_user = PlayerAfter(db, response.user)

\* The three fatal failures of the card slot selection for a card and an
\* action type of the card: the two actions are the same, SIGHT finds no
\* character on its slot, SPECIFIC_TOKEN finds no token on its slot.
FatalSlot(card, type) ==
  LET first == card.action1 = type
      cardCharacterId == IF first THEN card.character1 ELSE card.character2
      cardTokenId == IF first THEN card.token1 ELSE card.token2
  IN \/ card.action1 = card.action2
     \/ type = "SIGHT" /\ cardCharacterId = NULL
     \/ type = "SPECIFIC_TOKEN" /\ cardTokenId = NULL

\* C32: a game created for 2 to 6 players has 28 cards; every card has two
\* different actions, a character exactly on a SIGHT slot and a token
\* exactly on a SPECIFIC_TOKEN slot, so that no card action of the card
\* meets one of the three fatal failures of the slot selection, and no
\* call in phase 3 ends in a fatal error.
C32_CardsWellFormed ==
  Cardinality(DOMAIN db.game_user) \in MinPlayerCount .. MaxPlayerCount =>
    /\ Cardinality(DOMAIN db.game_card) = 28
    /\ \A seed \in 0 .. MaxSeeds - 1 :
         Len(allCards(Cut([i \in 1 .. NumCharacters |-> i - 1], seed))) = 28
    /\ \A id \in DOMAIN db.game_card :
         LET card == db.game_card[id]
         IN /\ card.action1 # card.action2
            /\ {card.action1, card.action2} \subseteq ActionTypes \ {"ROLL"}
            /\ card.character1 # NULL <=> card.action1 = "SIGHT"
            /\ card.character2 # NULL <=> card.action2 = "SIGHT"
            /\ card.token1 # NULL <=> card.action1 = "SPECIFIC_TOKEN"
            /\ card.token2 # NULL <=> card.action2 = "SPECIFIC_TOKEN"
            /\ card.character1 # NULL => card.character1 \in Characters
            /\ card.character2 # NULL => card.character2 \in Characters
            /\ card.token1 # NULL => card.token1 \in Tokens
            /\ card.token2 # NULL => card.token2 \in Tokens
            /\ \A type \in {card.action1, card.action2} : ~ FatalSlot(card, type)
    /\ turnCount(db) = 3 =>
         \A req \in PlayRequests(db, curPlayer(db)) :
           applyAction(db, curPlayer(db), req, NoDraws).status # 500

\* A game of six players was created, with a card for every character.
C32_Witness ==
  /\ response.op = "createGame" /\ response.status = 200
  /\ Cardinality(DOMAIN db.game_user) = MaxPlayerCount
  /\ \A c \in Characters : \E id \in DOMAIN db.game_card :
       db.game_card[id].character2 = c

\* C33: the stock of every token is at least 0 in every reachable state,
\* and no call of the player to move, accepted or not, leaves a stock
\* below 0, although no resolver reads the stock before it takes a unit.
C33_StockNotNegative ==
  /\ \A t \in Tokens : db.game_token[t] >= 0
  /\ \A req \in PlayRequests(db, curPlayer(db)) :
       \A t \in Tokens :
         applyAction(db, curPlayer(db), req, NoDraws).db.game_token[t] >= 0

\* The last unit of a token was taken, and the player who took it holds a
\* token card still.
C33_Witness ==
  /\ response.op = "applyAction" /\ response.status = 200
  /\ \E t \in Tokens : db.game_token[t] = 0
  /\ \E id \in Hand(db, response.user) :
       {"PICK_TOKEN", "SPECIFIC_TOKEN"} \cap
         {db.game_card[id].action1, db.game_card[id].action2} # {}

\* C34: in every reachable state every player holds exactly two cards.
C34_HandOfTwo ==
  \A u \in Players : Cardinality(Hand(db, u)) = HandSize

\* C35: once the stage is FINISHED no applyAction call is accepted, and no
\* call changes the log, the locations, the eliminated flags, the stocks,
\* the holdings or the hands.
C35_FinishedIsFinal ==
  db.game_stage = "FINISHED" =>
    \A user \in AllUsers(db) :
      \A req \in IF user \in Players THEN PlayRequests(db, user)
                 ELSE {Request("MOVE", NULL, 0, NULL, 1, NULL)} :
        LET sent == applyAction(db, user, req, NoDraws)
        IN sent.status # 200 /\ Board(sent.db) = Board(db)

Passes(s, user, req) ==
  applyAction(s, user, req, NoDraws).db.game_log # s.game_log

\* The cards the player to move may play, with the action types open on
\* each: in phase 3 the cards of the hand with both actions, in phase 4 the
\* card of phase 3, if still in the hand, with the action not yet played.
Open(s) ==
  IF turnCount(s) = 3
  THEN {<<id, type>> \in Hand(s, curPlayer(s)) \X ActionTypes :
          type \in {s.game_card[id].action1, s.game_card[id].action2}}
  ELSE IF turnCount(s) = 4
  THEN {<<id, type>> \in Hand(s, curPlayer(s)) \X ActionTypes :
          /\ id = lastLog(s).card
          /\ type \in {s.game_card[id].action1, s.game_card[id].action2}
          /\ type # lastLog(s).action}
  ELSE {}

\* C37: in phase 3 or 4, for every card the player to move may play and
\* every action open on it, some request passes the validation; so when
\* the player holds such a card, some request does.  Every cell of the
\* board is a location of a token, so that PICK_TOKEN is among them.
C37_SomeActionPasses ==
  /\ UNION {tokenLocations[t + 1] : t \in Tokens} = Cells
  /\ \A x \in Open(db) :
       \E req \in PlayRequests(db, curPlayer(db)) :
         /\ req.cardId = x[1] /\ req.type = x[2]
         /\ Passes(db, curPlayer(db), req)
  /\ (turnCount(db) = 3 /\ Hand(db, curPlayer(db)) # {}) => Open(db) # {}
  /\ (turnCount(db) = 4 /\ lastLog(db).card \in Hand(db, curPlayer(db)))
       => Open(db) # {}

\* The player to move is in phase 4 and the action open on the card of
\* phase 3 is PICK_TOKEN.
C37_Witness ==
  /\ response.op = "applyAction" /\ response.status = 200
  /\ turnCount(db) = 4
  /\ \E x \in Open(db) : x[2] = "PICK_TOKEN"

\* The forced moves of every character to every cell.
ForcedMoves ==
  {Request("MOVE", NULL, c, NULL, l, NULL) : c \in Characters, l \in Cells}

\* C38: after an accepted MOVE of phase 1 some MOVE of phase 2, of a
\* character to a cell, is accepted, whatever the dice show: for every
\* pair of faces rollDice can return and every character that passes the
\* check of phase 1, a character passes the check of phase 2, and every
\* cell has a cell one step away.
C38_SecondMoveExists ==
  /\ turnCount(db) = 2 =>
       \E req \in ForcedMoves : applyAction(db, curPlayer(db), req, NoDraws).status = 200
  /\ Len(db.game_log) = 1 =>
       /\ \A d \in rollDice : \A move1 \in Characters :
            (moveMatches(move1, d[1]) \/ moveMatches(move1, d[2]))
              => \E move2 \in Characters : movesMatch(move1, move2, d[1], d[2])
       /\ \A l \in Cells : \E moveTo \in Cells : dist(l, moveTo) = 1

\* The first forced move was accepted, with a character that one die
\* shows; the other die shows another character.
C38_Witness ==
  /\ response.op = "applyAction" /\ response.status = 200
  /\ turnCount(db) = 2
  /\ turnDice(db).die1 # NULL /\ turnDice(db).die2 # NULL
  /\ lastLog(db).character = turnDice(db).die2

\* The store with another character and other cards for a user.
Dealt(s, user, character, cards) ==
  [s EXCEPT !.game_user[user].character = character,
            !.game_user_card =
              {k \in @ : k[2] # user} \cup {<<id, user>> : id \in cards}]

\* C39: in every stage, FINISHED included, the view of a player holds the
\* character and the cards of that player and of no other: the entries of
\* the other users have neither, and the whole view is the same whatever
\* character and cards another user has.
C39_OwnSecretsOnly ==
  \A V \in Players :
    LET sent == getGame(db, V)
    IN sent.status = 200 =>
         /\ sent.result.users[V].character = Some(db.game_user[V].character)
         /\ sent.result.users[V].cards = Some(Hand(db, V))
         /\ \A user \in Players \ {V} :
              /\ sent.result.users[user].character = None
              /\ sent.result.users[user].cards = None
              /\ \A c \in Characters :
                   \A cards \in {{}, Hand(db, V), drawPile(db)} :
                     getGame(Dealt(db, user, c, cards), V).result = sent.result

\* A player has got the view of a finished game in which another player
\* holds cards.
C39_Witness ==
  /\ response.op = "getGame" /\ response.status = 200
  /\ db.game_stage = "FINISHED"
  /\ response.result.users[response.user].character # None
  /\ \E user \in Players \ {response.user} :
       /\ Hand(db, user) # {}
       /\ response.result.users[user].cards = None

====
